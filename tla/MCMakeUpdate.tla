---- MODULE MCMakeUpdate ----
(***************************************************************************)
(* Makefiles for MakeUpdate: each has a goal g and three more files.       *)
(***************************************************************************)
EXTENDS MakeUpdate

CONSTANTS g, a, b, c

\* The phony g needs a and b, and both need c.
Diamond == [
    goals |-> <<g>>,
    deps |-> (g :> <<a, b>> @@ a :> <<c>> @@ b :> <<c>> @@ c :> << >>),
    order_only |-> {}, wait_here |-> {},
    phony |-> {g}, cmds |-> {g, a, b, c}, empty |-> {}, is_target |-> {g, a, b, c},
    also_make |-> [f \in Files |-> << >>]]

\* Two goals; b needs c, then .WAIT, then a, and g only for its order.
Ordered == [Diamond EXCEPT
    !.goals = <<b, g>>,
    !.deps = (g :> << >> @@ a :> << >> @@ b :> <<c, a, g>> @@ c :> << >>),
    !.order_only = {<<b, g>>}, !.wait_here = {<<b, a>>},
    !.phony = {}, !.cmds = {g, a, b, c}, !.empty = {g}]

\* a and b need each other; c has no rule.
Circular == [Diamond EXCEPT
    !.deps = (g :> <<a>> @@ a :> <<b>> @@ b :> <<a, c>> @@ c :> << >>),
    !.phony = {}, !.cmds = {a, b}, !.is_target = {g, a, b}]

\* One recipe makes a and b; each has a prerequisite of its own.
Grouped == [Diamond EXCEPT
    !.goals = <<a, b>>,
    !.deps = (g :> << >> @@ a :> <<c>> @@ b :> <<g>> @@ c :> << >>),
    !.phony = {}, !.cmds = {g, a, b, c},
    !.also_make = (a :> <<b>> @@ b :> <<a>> @@ c :> << >> @@ g :> << >>)]

\* c is a source file.
Chain == [Diamond EXCEPT
    !.deps = (g :> <<a>> @@ a :> <<b>> @@ b :> <<c>> @@ c :> << >>),
    !.phony = {}, !.cmds = {a, b}, !.is_target = {g, a, b}]

\* As Grouped, but b, which is made together with a, also lists a.
GroupedCircular == [Grouped EXCEPT !.deps[b] = <<a>>, !.goals = <<a, g>>]

AllMakefiles == {Diamond, Ordered, Circular, Grouped, Chain}
TheGroupedCircle == {GroupedCircular}
====

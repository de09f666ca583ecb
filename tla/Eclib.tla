---- MODULE Eclib ----
(***************************************************************************)
(* The calls of eclib that ask a service: memory (men.c), files (file.c),  *)
(* file system, processes, pipes and windows.  A call looks the service up *)
(* at the registry, sends its request and waits for the answer for some    *)
(* time.  ipc_call_sync and the services are not part of the library: a    *)
(* request may be lost, answered late or carried out after the caller gave *)
(* up, and a service may die and come back under another pid.              *)
(***************************************************************************)
EXTENDS Integers, Sequences, FiniteSets, SequencesExt

CONSTANTS
    EcOps,                 \* the calls the program makes
    Addresses,             \* addresses of the memory manager
    MaxEcCalls, MaxEcFaults

VARIABLES
    ec_pid,                \* service -> its pid
    live,                  \* addresses the memory manager has given out
    handles,               \* number of files file_control holds open
    owned,                 \* pointers of the program, in the order it got them
    held_files,            \* number of file handles of the program
    call,                  \* the call under way
    late,                  \* requests that will be carried out though the caller gave up
    last_err,
    g_rui_pid,
    ec_calls, ec_faults,
    doubtful,              \* pointers that may be no block of the program's any more
    unsure                 \* how many blocks and files the program lost track of

ecVars == <<ec_pid, live, handles, owned, held_files, call, late, last_err, g_rui_pid, ec_calls, ec_faults, doubtful, unsure>>

NoCall == [op |-> "none"]
GivenBack == IF call.op = "free" THEN {call.ptr} ELSE {}   \* no longer in owned
EcServices == {"registry", "memory_manager", "file_control", "file_service", "process_service", "pipe_service",
               "signal_service", "time_service", "rui_service"}

ServiceCalls ==
    [registry |-> {"register", "unregister"},
     memory_manager |-> {"malloc", "calloc", "free", "realloc"},
     file_control |-> {"open", "close", "read", "write", "get_length"},
     file_service |-> {"stat", "access", "unlink", "chdir", "getcwd"},
     process_service |-> {"fork", "execve", "waitpid", "getppid"},
     pipe_service |-> {"pipe", "dup2"}, signal_service |-> {"signal", "kill"}, time_service |-> {"time"},
     rui_service |-> {"window", "text"}]
ServiceOf(op) == CHOOSE s \in EcServices : op \in ServiceCalls[s]

\* Calls that change what a service holds for the program.
Changing == [memory |-> {"malloc", "calloc", "free", "realloc"}, files |-> {"open", "close"}]

-----------------------------------------------------------------------------
(* What the program is told: the value returned, and whether the call sets   *)
(* last_err itself (a lookup that fails always does).  A call ends "ok", or  *)
(* because of the "lookup", the "transport" or an error of the "service".    *)

Told(value, sets_err) == [value |-> value, sets_err |-> sets_err]
Checked(end) == Told(IF end = "ok" THEN "answer" ELSE "failure", end # "ok")

\* eclib_free returns nothing and has no answer to look at.
memory_told(op, end) ==
    IF op = "free" THEN Told("nothing", end \in {"lookup", "transport"}) ELSE Checked(end)
file_told(op, end) == Checked(end)
registry_told(op, end) ==
    IF op = "unregister" /\ end = "service" THEN Told("failure", FALSE) ELSE Checked(end)

\* eclib_stat looks at err, eclib_getcwd does not; the others give the answer's result.
filesystem_told(op, end) ==
    Told(CASE end = "ok" -> "answer"
           [] end = "service" -> IF op = "stat" THEN "failure" ELSE IF op = "getcwd" THEN "answer" ELSE "result"
           [] OTHER -> "failure", FALSE)

\* eclib_fork and eclib_waitpid return the pid of an answer that is an error.
process_told(op, end) ==
    Told(CASE end = "ok" -> "answer"
           [] end = "service" /\ op \in {"fork", "waitpid"} -> "answer"
           [] OTHER -> "failure", FALSE)

\* The answers of pipes, signals and the time have a result and no error.
small_told(op, end) ==
    Told(CASE end = "ok" -> "answer" [] end = "service" -> "result" [] OTHER -> "failure", FALSE)

\* eclib_rui_create_window stores the code of the transport, "ok" when the error
\* is the service's; eclib_rui_draw_text has the transport's and stores none.
window_told(op, end) ==
    IF op = "window" THEN Told(IF end = "ok" THEN "answer" ELSE "failure", end = "transport")
    ELSE Told(IF end \in {"lookup", "transport"} THEN "failure" ELSE "answer", FALSE)

TheTold(op, end) ==
    CASE op \in ServiceCalls["registry"] -> registry_told(op, end)
      [] op \in ServiceCalls["memory_manager"] -> memory_told(op, end)
      [] op \in ServiceCalls["file_control"] -> file_told(op, end)
      [] op \in ServiceCalls["file_service"] -> filesystem_told(op, end)
      [] op \in ServiceCalls["process_service"] -> process_told(op, end)
      [] op \in ServiceCalls["rui_service"] -> window_told(op, end)
      [] OTHER -> small_told(op, end)

EcInit ==
    /\ ec_pid = [s \in EcServices |-> IF s = "registry" THEN 1 ELSE 2] /\ live = {} /\ handles = 0 /\ owned = << >> /\ held_files = 0
    /\ call = NoCall /\ late = << >> /\ last_err = "ok" /\ g_rui_pid = 0 /\ ec_calls = 0 /\ ec_faults = 0
    /\ doubtful = {} /\ unsure = [memory |-> 0, files |-> 0]

-----------------------------------------------------------------------------
(* A call *)

\* The program calls; eclib_free and eclib_realloc are given one of its
\* pointers, and eclib_free's is gone from then on.  The registry has pid 1, and
\* the windows' service is looked up once.
Begin(op) ==
    /\ call = NoCall /\ ec_calls < MaxEcCalls
    /\ ec_calls' = ec_calls + 1
    /\ LET s == ServiceOf(op)
       IN \E p \in IF op \in {"free", "realloc"} THEN Range(owned) ELSE {0} :
             /\ call' = [op |-> op, ptr |-> p,
                         phase |-> IF s = "registry" \/ (s = "rui_service" /\ g_rui_pid # 0) THEN "send" ELSE "lookup",
                         pid |-> IF s = "registry" THEN 1 ELSE g_rui_pid]
             /\ owned' = IF op = "free" THEN RemoveFirst(owned, p) ELSE owned
    /\ op = "close" => held_files > 0
    /\ last_err' = "ok"
    /\ UNCHANGED <<ec_pid, live, handles, held_files, late, g_rui_pid, ec_faults, doubtful, unsure>>

\* The call is under way, and has got as far as the phase.
In(phase) == call.op \notin {"none", "ended"} /\ call.phase = phase
CallEnds(end) ==
    LET t == TheTold(call.op, end)
    IN /\ call' = [op |-> "ended", was |-> call.op, end |-> end, value |-> t.value]
       /\ last_err' = IF t.sets_err \/ end = "lookup" THEN end ELSE last_err

\* The service is found, or its lookup fails; then eclib_free has lost a block.
eclib_service_lookup ==
    /\ In("lookup")
    /\ LET s == ServiceOf(call.op)
       IN \/ /\ call' = [call EXCEPT !.phase = "send", !.pid = ec_pid[s]]
             /\ g_rui_pid' = IF s = "rui_service" THEN ec_pid[s] ELSE g_rui_pid
             /\ UNCHANGED <<last_err, ec_faults, unsure>>
          \/ /\ ec_faults < MaxEcFaults /\ ec_faults' = ec_faults + 1
             /\ CallEnds("lookup")
             /\ unsure' = IF call.op = "free" THEN [unsure EXCEPT !.memory = @ + 1] ELSE unsure
             /\ UNCHANGED g_rui_pid
    /\ UNCHANGED <<ec_pid, live, handles, owned, held_files, late, ec_calls, doubtful>>

\* What the services do with a request: the memory manager gives a free address,
\* takes one back, or moves a block.
Served(op, p) ==
    CASE op \in {"malloc", "calloc"} -> \E a \in Addresses \ live : live' = live \cup {a} /\ UNCHANGED handles
      [] op = "free" -> live' = live \ {p} /\ UNCHANGED handles
      [] op = "realloc" -> \E a \in (Addresses \ live) \cup {p} : live' = (live \ {p}) \cup {a} /\ UNCHANGED handles
      [] op = "open" -> handles' = handles + 1 /\ UNCHANGED live
      [] op = "close" -> handles' = handles - 1 /\ UNCHANGED live
      [] OTHER -> UNCHANGED <<live, handles>>
Possible(op, p) ==
    /\ op \in {"malloc", "calloc"} => Addresses \ live # {}
    /\ op \in {"free", "realloc"} => p \in live
    /\ op = "close" => handles > 0

Reached == call.pid = ec_pid[ServiceOf(call.op)]

\* The answer came in time: the pointer or the handle is the program's.
Answered ==
    /\ In("send") /\ Reached
    /\ Possible(call.op, call.ptr) /\ Served(call.op, call.ptr)
    /\ owned' = CASE call.op \in {"malloc", "calloc"} -> owned \o SetToSeq(live' \ live)
                  [] call.op = "realloc" -> Append(RemoveFirst(owned, call.ptr),
                                                   IF live' = live THEN call.ptr ELSE CHOOSE a \in live' \ live : TRUE)
                  [] OTHER -> owned
    /\ held_files' = CASE call.op = "open" -> held_files + 1 [] call.op = "close" -> held_files - 1 [] OTHER -> held_files
    /\ CallEnds("ok")
    /\ UNCHANGED <<ec_pid, late, g_rui_pid, ec_calls, ec_faults, doubtful, unsure>>

\* Mutant: the answer's error is not looked at.
Refused_unseen ==
    /\ In("send") /\ Reached
    /\ owned' = IF call.op = "malloc" THEN Append(owned, CHOOSE a \in Addresses : TRUE) ELSE owned
    /\ CallEnds("ok")
    /\ UNCHANGED <<ec_pid, live, handles, held_files, late, g_rui_pid, ec_calls, ec_faults, doubtful, unsure>>

\* The service answered with an error, or nothing has the pid any more.
Refused ==
    /\ In("send")
    /\ CallEnds(IF Reached THEN "service" ELSE "transport")
    /\ unsure' = IF Reached /\ call.op = "free" THEN [unsure EXCEPT !.memory = @ + 1] ELSE unsure
    /\ UNCHANGED <<ec_pid, live, handles, owned, held_files, late, g_rui_pid, ec_calls, ec_faults, doubtful>>

\* No answer in time: the request is lost, or it will still be carried out; the
\* program keeps the pointer that it wanted moved.
TimedOut(lost) ==
    /\ In("send") /\ ec_faults < MaxEcFaults
    /\ ec_faults' = ec_faults + 1
    /\ late' = IF lost \/ call.op \notin Changing.memory \cup Changing.files THEN late ELSE Append(late, [op |-> call.op, ptr |-> call.ptr, pid |-> call.pid])
    /\ unsure' = [k \in DOMAIN Changing |-> unsure[k] + IF call.op \in Changing[k] THEN 1 ELSE 0]
    /\ doubtful' = IF call.op = "realloc" THEN doubtful \cup {call.ptr} ELSE doubtful
    /\ CallEnds("transport")
    /\ UNCHANGED <<ec_pid, live, handles, owned, held_files, g_rui_pid, ec_calls>>

Return ==
    /\ call.op = "ended" /\ call' = NoCall
    /\ UNCHANGED <<ec_pid, live, handles, owned, held_files, late, last_err, g_rui_pid, ec_calls, ec_faults, doubtful, unsure>>

-----------------------------------------------------------------------------
(* The services *)

CarriedOutLate ==
    /\ late # << >> /\ late' = Tail(late)
    /\ LET r == Head(late)
       IN IF r.pid = ec_pid[ServiceOf(r.op)] /\ Possible(r.op, r.ptr) THEN Served(r.op, r.ptr) ELSE UNCHANGED <<live, handles>>
    /\ UNCHANGED <<ec_pid, owned, held_files, call, last_err, g_rui_pid, ec_calls, ec_faults, doubtful, unsure>>

\* A service dies with what it holds, and comes back under the next pid.
ServiceRestarts(s) ==
    /\ ec_faults < MaxEcFaults /\ ec_faults' = ec_faults + 1
    /\ ec_pid' = [ec_pid EXCEPT ![s] = @ + 1]
    /\ live' = IF s = "memory_manager" THEN {} ELSE live
    /\ handles' = IF s = "file_control" THEN 0 ELSE handles
    /\ doubtful' = IF s = "memory_manager" THEN doubtful \cup Range(owned) \cup GivenBack ELSE doubtful
    /\ unsure' = IF s = "file_control" THEN [unsure EXCEPT !.files = @ + held_files] ELSE unsure
    /\ UNCHANGED <<owned, held_files, call, late, last_err, g_rui_pid, ec_calls>>

EcNext ==
    \/ \E op \in EcOps : Begin(op)
    \/ eclib_service_lookup \/ Answered \/ Refused \/ Return \/ CarriedOutLate
    \/ \E lost \in BOOLEAN : TimedOut(lost)
    \/ \E s \in EcServices \ {"registry"} : ServiceRestarts(s)

-----------------------------------------------------------------------------
(* Properties *)

\* Type invariant.
EcTypeOK ==
    /\ live \subseteq Addresses /\ Range(owned) \subseteq Addresses
    /\ handles \in Nat /\ held_files \in Nat
    /\ last_err \in {"ok", "lookup", "transport", "service"}

\* A pointer of the program is a block of the memory manager and no other pointer
\* is the same, whatever calls failed meanwhile.  The doubtful ones are those it
\* asked to have moved and got no answer for, and all it had when the manager died,
\* the one being given back with them: the new manager may take that for its own.
PointersValid ==
    \A i \in DOMAIN owned :
        owned[i] \notin doubtful => owned[i] \in live /\ \A j \in DOMAIN owned : owned[j] = owned[i] => i = j

\* No more blocks are without an owner than there were calls without an answer (and
\* eclib_free's that failed), and the program is as near to right about its files.
NothingLeaks ==
    /\ Cardinality(live \ (Range(owned) \cup GivenBack)) <= unsure.memory
    /\ held_files - handles <= unsure.files /\ handles - held_files <= unsure.files

\* A call that failed shows it, in what it returns or in last_err.  The answers
\* whose error nobody looks at are the exceptions: eclib_free, eclib_fork,
\* eclib_waitpid, eclib_getcwd and eclib_rui_draw_text; where the answer has a
\* result of its own, that is what the program has.
FailureTold ==
    (call.op = "ended" /\ call.end # "ok") =>
        \/ call.value = "failure" \/ last_err # "ok"
        \/ call.end = "service" /\ (call.value = "result" \/ call.was \in {"free", "fork", "waitpid", "getcwd", "text"})

\* A call that succeeded leaves no error behind, and one that reports success has
\* been served or is one of those exceptions.
SuccessTrue ==
    call.op = "ended" =>
        /\ call.end = "ok" => last_err = "ok"
        /\ call.value = "answer" => call.end = "ok" \/ call.was \in {"fork", "waitpid", "getcwd", "text"}

\* The pid of the windows' service is kept: a call goes there although the service
\* came back under another, and then it never succeeds.
RuiPidStale ==
    (call.op \in {"window", "text"} /\ In("send")) =>
        call.pid = g_rui_pid /\ (~Reached => g_rui_pid < ec_pid["rui_service"])

\* The calls as a whole.
EclibCallsCorrect == EcTypeOK /\ PointersValid /\ NothingLeaks /\ FailureTold /\ SuccessTrue /\ RuiPidStale

-----------------------------------------------------------------------------
(***************************************************************************)
(* What eclib keeps in the program itself: the environment (env.c), the    *)
(* table of services and its announcements (src/service.c), the token of a *)
(* capability (capability.c), and how the machine is shut down             *)
(* (shutdown.c); and its strings and blocks of memory (utils.c), as        *)
(* operators that are checked against what they are for.                   *)
(***************************************************************************)

CONSTANTS
    EnvNames, EnvValues,   \* sequences of characters; a value may hold "="
    ServiceNames,
    MAX_EC_SERVICES,       \* MAX_SERVICES of service.c, 256: the entries of g_registry
    MaxServiceIds,         \* how often a service registers in a run
    UtilTexts, UtilLen     \* characters and greatest length of the texts compared

VARIABLES
    facility,              \* which of the facilities this behaviour is about
    eclib_environ,         \* the entries
    env_array,             \* whether there is an array: it is NULL at first
    env_blocks,            \* blocks the environment holds
    env_wanted,            \* name -> value, what the program has asked for
    g_registry, next_id,   \* sequence of [name, id]
    announcements,         \* SERVICE_REGISTER and SERVICE_UNREGISTER as broadcast
    token, token_kernel,   \* the program's copy, and whether the kernel still knows it
    told, stopped,         \* what processes were told (0: all of them); how the machine was stopped
    callers,               \* the processes that are about to stop the machine
    util                   \* arguments of one call of a string function

elVars == <<facility, eclib_environ, env_array, env_blocks, env_wanted, g_registry, next_id, announcements, token, token_kernel, told, stopped, callers, util>>

TextsUpTo(n) == UNION {[1 .. k -> UtilTexts] : k \in 0 .. n}

-----------------------------------------------------------------------------
(* Strings and memory: utils.c *)

\* eclib_strncpy copies at most max_len - 1 characters, and ends them.
eclib_strncpy(src, max_len) == SubSeq(src, 1, IF Len(src) < max_len - 1 THEN Len(src) ELSE max_len - 1)

\* The difference of the first characters that differ; the end counts as 0.
CharAt(s, i) == IF i > Len(s) THEN 0 ELSE s[i]
eclib_strncmp(s, t, n) ==
    LET differ == {i \in 1 .. n : CharAt(s, i) # CharAt(t, i) \/ CharAt(s, i) = 0}
    IN IF differ = {} THEN 0
       ELSE LET i == CHOOSE j \in differ : \A k \in differ : j <= k IN CharAt(s, i) - CharAt(t, i)
eclib_strcmp(s, t) == eclib_strncmp(s, t, (IF Len(s) < Len(t) THEN Len(s) ELSE Len(t)) + 1)

\* The first and the last place of a character, the end for the null character; 0 for NULL.
eclib_strchr(s, c) ==
    LET at == {i \in 1 .. Len(s) + 1 : CharAt(s, i) = c} IN IF at = {} THEN 0 ELSE CHOOSE i \in at : \A j \in at : i <= j
eclib_strrchr(s, c) ==
    LET last[i \in 0 .. Len(s)] == IF i = 0 THEN 0 ELSE IF s[i] = c THEN i ELSE last[i - 1]
    IN IF c = 0 THEN Len(s) + 1 ELSE last[Len(s)]

\* The first place of substr in str, counted from 1; 0 for NULL, and for an empty substr.
eclib_strstr(str, substr) ==
    LET at == {i \in 1 .. Len(str) - Len(substr) + 1 : SubSeq(str, i, i + Len(substr) - 1) = substr}
    IN IF substr = << >> \/ at = {} THEN 0 ELSE CHOOSE i \in at : \A j \in at : i <= j

\* memcpy goes up and memmove, where dest lies in the source, down: a byte copied
\* on the way may be one that was written before.
CopyUp(mem, dest, src, len) ==
    LET step[i \in 0 .. len] == IF i = 0 THEN mem ELSE [step[i - 1] EXCEPT ![dest + i - 1] = step[i - 1][src + i - 1]]
    IN step[len]
CopyDown(mem, dest, src, len) ==
    LET step[i \in 0 .. len] == IF i = 0 THEN mem ELSE [step[i - 1] EXCEPT ![dest + len - i] = step[i - 1][src + len - i]]
    IN step[len]
eclib_memmove(mem, dest, src, len) ==
    IF dest > src /\ dest < src + len THEN CopyDown(mem, dest, src, len) ELSE CopyUp(mem, dest, src, len)

\* One call of eclib_strtok on the text that its static state holds: the token,
\* << >> for NULL, and the text that is left.
FirstWhere(s, Test(_)) == LET at == {i \in 1 .. Len(s) : Test(s[i])} IN IF at = {} THEN Len(s) + 1 ELSE CHOOSE i \in at : \A j \in at : i <= j
eclib_strtok(state, delim) ==
    LET skipped == SubSeq(state, FirstWhere(state, LAMBDA c : c # delim), Len(state))
        stop    == FirstWhere(skipped, LAMBDA c : c = delim)
    IN [token |-> SubSeq(skipped, 1, stop - 1), state |-> SubSeq(skipped, stop + 1, Len(skipped))]
Tokens(text, delim) ==
    LET more[i \in 0 .. Len(text) + 1] ==
          IF i = 0 THEN [done |-> << >>, state |-> text, last |-> << >>]
          ELSE LET t == eclib_strtok(more[i - 1].state, delim)
               IN [done |-> IF t.token = << >> THEN more[i - 1].done ELSE Append(more[i - 1].done, t.token),
                   state |-> t.state, last |-> t.token]
    IN more[Len(text) + 1].done

\* The digits of %d, the last one first as they are found, and with the sign; the
\* smallest int, whose negative is no int, is not printed.
Decimal(val) ==
    LET abs == IF val < 0 THEN -val ELSE val
        digits[v \in 0 .. abs] == IF v < 10 THEN <<48 + v>> ELSE Append(digits[v \div 10], 48 + (v % 10))
    IN (IF val < 0 THEN <<45>> ELSE << >>) \o digits[abs]

\* A format is a sequence of characters and of directives with their arguments, each
\* given by the text it stands for.  The buffer is looked at before each character,
\* and again when a directive has been read.
eclib_snprintf(size, parts) ==
    LET buf[i \in 0 .. Len(parts)] ==
          IF i = 0 THEN << >>
          ELSE LET room == size - 1 - Len(buf[i - 1])
               IN buf[i - 1] \o SubSeq(parts[i], 1, IF room < Len(parts[i]) THEN room ELSE Len(parts[i]))
    IN buf[Len(parts)]

\* The words that eclib_execve packs into the room of the request, one after the
\* other with a NUL each: one that does not fit is left out, a later one may fit.
Packed(words, room) ==
    LET pack[i \in 0 .. Len(words)] ==
          IF i = 0 THEN [used |-> 0, kept |-> << >>]
          ELSE LET before == pack[i - 1] size == Len(words[i]) + 1
               IN IF before.used + size < room
                  THEN [used |-> before.used + size, kept |-> Append(before.kept, words[i])] ELSE before
    IN pack[Len(words)]

-----------------------------------------------------------------------------
(* The environment: env.c *)

EntryOf(name, value) == name \o <<"=">> \o value
IsEntryOf(entry, name) == Len(entry) > Len(name) /\ SubSeq(entry, 1, Len(name)) = name /\ entry[Len(name) + 1] = "="
NULL == <<"NULL">>
PlacesOf(name) == {i \in DOMAIN eclib_environ : IsEntryOf(eclib_environ[i], name)}
eclib_getenv(name) ==
    IF PlacesOf(name) = {} THEN NULL
    ELSE LET i == CHOOSE j \in PlacesOf(name) : \A k \in PlacesOf(name) : j <= k
         IN SubSeq(eclib_environ[i], Len(name) + 2, Len(eclib_environ[i]))

Wanted(name, value) == [n \in DOMAIN env_wanted \cup {name} |-> IF n = name THEN value ELSE env_wanted[n]]

\* A new entry takes the place of the last that has the name, or goes to the end
\* of a new array.  Either of the two blocks may be refused.
eclib_setenv(name, value, overwrite, granted) ==
    /\ facility = "environment"
    /\ LET places == PlacesOf(name)
           new    == EntryOf(name, value)
           done   == ~(places # {} /\ ~overwrite) /\ granted = IF places = {} THEN 2 ELSE 1
       IN IF ~done THEN UNCHANGED <<eclib_environ, env_array, env_blocks, env_wanted>>
          ELSE /\ eclib_environ' = IF places = {} THEN Append(eclib_environ, new)
                                   ELSE [eclib_environ EXCEPT ![CHOOSE i \in places : \A j \in places : i >= j] = new]
               /\ env_blocks' = env_blocks + (IF places # {} THEN 0 ELSE IF env_array THEN 1 ELSE 2)
               /\ env_array' = TRUE
               /\ env_wanted' = Wanted(name, value)
    /\ UNCHANGED <<facility, g_registry, next_id, announcements, token, token_kernel, told, stopped, callers, util>>

eclib_unsetenv(name) ==
    /\ facility = "environment" /\ env_array
    /\ LET places == PlacesOf(name)
       IN /\ places # {}
          /\ eclib_environ' = RemoveAt(eclib_environ, CHOOSE i \in places : \A j \in places : i <= j)
          /\ env_blocks' = env_blocks - 1
    /\ env_wanted' = [n \in DOMAIN env_wanted \ {name} |-> env_wanted[n]]
    /\ UNCHANGED <<facility, env_array, g_registry, next_id, announcements, token, token_kernel, told, stopped, callers, util>>

-----------------------------------------------------------------------------
(* Services: src/service.c *)

\* Whether the broadcast was sent is not looked at: nobody may have heard it.
service_register(name, sent) ==
    /\ facility = "registry" /\ next_id < MaxServiceIds
    /\ Len(g_registry) < MAX_EC_SERVICES /\ \A i \in DOMAIN g_registry : g_registry[i].name # name
    /\ g_registry' = Append(g_registry, [name |-> name, id |-> next_id, beat |-> FALSE])
    /\ next_id' = next_id + 1
    /\ announcements' = Append(announcements, [op |-> "SERVICE_REGISTER", id |-> next_id, heard |-> sent])
    /\ UNCHANGED <<facility, eclib_environ, env_array, env_blocks, env_wanted, token, token_kernel, told, stopped, callers, util>>

\* The services after the one removed move up.
service_unregister(id, sent) ==
    /\ facility = "registry"
    /\ \E i \in DOMAIN g_registry : g_registry[i].id = id /\ g_registry' = RemoveAt(g_registry, i)
    /\ announcements' = Append(announcements, [op |-> "SERVICE_UNREGISTER", id |-> id, heard |-> sent])
    /\ UNCHANGED <<facility, eclib_environ, env_array, env_blocks, env_wanted, next_id, token, token_kernel, told, stopped, callers, util>>

service_heartbeat(id) ==
    /\ facility = "registry"
    /\ \E i \in DOMAIN g_registry : g_registry[i].id = id /\ g_registry' = [g_registry EXCEPT ![i].beat = TRUE]
    /\ UNCHANGED <<facility, eclib_environ, env_array, env_blocks, env_wanted, next_id, announcements, token, token_kernel, told, stopped, callers, util>>

-----------------------------------------------------------------------------
(* Capabilities and shutdown *)

Pids == {1, 2}
NoToken == [owner |-> 0, valid |-> FALSE]

acquire_capability(pid) ==
    /\ facility = "token" /\ token = NoToken /\ ~token_kernel
    /\ token' = [owner |-> pid, valid |-> TRUE] /\ token_kernel' = TRUE
    /\ UNCHANGED <<facility, eclib_environ, env_array, env_blocks, env_wanted, g_registry, next_id, announcements, told, stopped, callers, util>>

\* Only the owner gives it back; the copy is wiped when the kernel has agreed.
release_capability(pid, agreed) ==
    /\ facility = "token" /\ token.owner = pid
    /\ IF agreed /\ token_kernel THEN token' = NoToken /\ token_kernel' = FALSE ELSE UNCHANGED <<token, token_kernel>>
    /\ UNCHANGED <<facility, eclib_environ, env_array, env_blocks, env_wanted, g_registry, next_id, announcements, told, stopped, callers, util>>

TokenExpires ==
    /\ facility = "token" /\ token.valid /\ token' = [token EXCEPT !.valid = FALSE]
    /\ UNCHANGED <<facility, eclib_environ, env_array, env_blocks, env_wanted, g_registry, next_id, announcements, token_kernel, told, stopped, callers, util>>

\* What a process may hand to the virtual port.
MaySendToken(pid) == token.owner = pid /\ token.valid

Running == [how |-> "none", nowait |-> FALSE, sent |-> FALSE]
PowerUnchanged == UNCHANGED <<facility, eclib_environ, env_array, env_blocks, env_wanted, g_registry, next_id, announcements, token, token_kernel, util>>

\* shutdown_system and reboot_system: a process with the capability tells the
\* others, unless it will not wait, and goes on though the broadcast failed.
shutdown_system(pid, how, nowait, sent) ==
    /\ facility = "power" /\ stopped = Running /\ callers[pid] = Running
    /\ nowait => ~sent
    /\ told' = IF sent THEN told \cup {[what |-> how, to |-> 0]} ELSE told
    /\ callers' = [callers EXCEPT ![pid] = [how |-> how, nowait |-> nowait, sent |-> sent]]
    /\ UNCHANGED stopped /\ PowerUnchanged

\* Then it asks the kernel, which may refuse: the others have been told for nothing.
sys_shutdown(pid, done) ==
    /\ facility = "power" /\ stopped = Running /\ callers[pid] # Running
    /\ stopped' = IF done THEN callers[pid] ELSE stopped
    /\ callers' = [callers EXCEPT ![pid] = Running]
    /\ UNCHANGED told /\ PowerUnchanged

\* PowerOffer is told not to kill if the kernel has agreed, and WAIT goes to the
\* caller's own pid; either may not be sent.
appendix_s_begin_save(pid) ==
    /\ facility = "power" /\ stopped = Running
    /\ \E sent \in SUBSET {[what |-> "DO_NOT_KILL", to |-> 0], [what |-> "WAIT", to |-> pid]} : told' = told \cup sent
    /\ UNCHANGED <<stopped, callers>> /\ PowerUnchanged

-----------------------------------------------------------------------------

ElInit ==
    /\ facility \in {"environment", "registry", "token", "power", "utils"}
    /\ eclib_environ = << >> /\ env_array = FALSE /\ env_blocks = 0 /\ env_wanted = << >>
    /\ g_registry = << >> /\ next_id = 0 /\ announcements = << >>
    /\ token = NoToken /\ token_kernel = FALSE /\ told = {} /\ stopped = Running
    /\ callers = [p \in Pids |-> Running]
    /\ util \in IF facility = "utils"
                THEN [s : TextsUpTo(UtilLen), t : TextsUpTo(2), n : 0 .. 3, d : 1 .. 3] ELSE {"none"}

ElNext ==
    \/ \E n \in EnvNames, v \in EnvValues, o \in BOOLEAN, granted \in 0 .. 2 : eclib_setenv(n, v, o, granted)
    \/ \E n \in EnvNames : eclib_unsetenv(n)
    \/ \E n \in ServiceNames, sent \in BOOLEAN : service_register(n, sent)
    \/ \E i \in 0 .. MaxServiceIds : service_heartbeat(i) \/ \E sent \in BOOLEAN : service_unregister(i, sent)
    \/ \E p \in Pids : acquire_capability(p) \/ appendix_s_begin_save(p) \/ \E agreed \in BOOLEAN : release_capability(p, agreed)
    \/ TokenExpires
    \/ \E p \in Pids, how \in {"SHUTDOWN", "REBOOT"}, nowait, sent \in BOOLEAN : shutdown_system(p, how, nowait, sent)
    \/ \E p \in Pids, done \in BOOLEAN : sys_shutdown(p, done)

-----------------------------------------------------------------------------
(* Properties *)

\* Every name has the value it was last given, though names begin alike and calls
\* run out of memory half way, and no block is lost.
EnvironmentKept ==
    facility = "environment" =>
        /\ \A n \in EnvNames : eclib_getenv(n) = IF n \in DOMAIN env_wanted THEN env_wanted[n] ELSE NULL
        /\ env_blocks = Len(eclib_environ) + IF env_array THEN 1 ELSE 0

\* What a process knows that heard what was sent: the services there are but those
\* whose announcement failed, and those that are gone but whose farewell failed.
\* No name and no id is there twice.
AnnouncementsAgree ==
    facility = "registry" =>
        LET ids == {g_registry[i].id : i \in DOMAIN g_registry}
            announced(op, heard) == {announcements[i].id : i \in {j \in DOMAIN announcements :
                                        announcements[j].op = op /\ announcements[j].heard = heard}}
            known == announced("SERVICE_REGISTER", TRUE) \ announced("SERVICE_UNREGISTER", TRUE)
        IN /\ known \ ids \subseteq announced("SERVICE_UNREGISTER", FALSE)
           /\ ids \ known = announced("SERVICE_REGISTER", FALSE) \cap ids
           /\ \A i, j \in DOMAIN g_registry : i # j => g_registry[i].id # g_registry[j].id /\ g_registry[i].name # g_registry[j].name

\* A token that was given back, and one of another process, goes to nobody.
TokenOfOwner == facility = "token" => \A p \in Pids : MaySendToken(p) => token_kernel /\ token.owner = p

\* However the calls of two processes interleave, the machine stops in a way that
\* the processes were told of, unless the broadcast of the one whose call stopped
\* it failed or was not wanted.
ToldBeforePowerOff ==
    (facility = "power" /\ stopped # Running) => stopped.nowait \/ ~stopped.sent \/ [what |-> stopped.how, to |-> 0] \in told

\* The string functions against what they are for.
UtilsCorrect ==
    facility = "utils" =>
        LET s == util.s  t == util.t  n == util.n  d == util.d
            \* strtok: the maximal runs of other characters, in order.
            starts == {i \in DOMAIN s : s[i] # d /\ (i = 1 \/ s[i - 1] = d)}
            toks   == Tokens(s, d)
        IN /\ Len(eclib_strncpy(s, n + 1)) <= n /\ IsPrefix(eclib_strncpy(s, n + 1), s)
           /\ (eclib_strcmp(s, t) = 0) = (s = t) /\ eclib_strcmp(s, t) = -eclib_strcmp(t, s)
           /\ (eclib_strncmp(s, t, n) = 0) = (SubSeq(s, 1, IF n < Len(s) THEN n ELSE Len(s)) = SubSeq(t, 1, IF n < Len(t) THEN n ELSE Len(t)))
           /\ (eclib_strchr(s, d) = 0) = (\A i \in DOMAIN s : s[i] # d) /\ eclib_strchr(s, 0) = eclib_strrchr(s, 0)
           /\ eclib_strrchr(s, d) = (IF eclib_strchr(Reverse(s), d) = 0 THEN 0 ELSE Len(s) + 1 - eclib_strchr(Reverse(s), d))
           /\ LET parts == <<s, <<d>>, Decimal(n - 1), t, Decimal(-100 * n)>>
                  out   == eclib_snprintf(Len(s) + n + 1, parts)
              IN Len(out) <= Len(s) + n /\ IsPrefix(out, FlattenSeq(parts))
                 /\ (Len(out) < Len(s) + n => out = FlattenSeq(parts))
           /\ LET at == eclib_strstr(s, t)
              IN IF at = 0 THEN t = << >> \/ \A i \in 0 .. Len(s) : ~IsPrefix(t, SubSeq(s, i + 1, Len(s)))
                 ELSE IsPrefix(t, SubSeq(s, at, Len(s)))
           /\ \A to \in 1 .. Len(s), from \in 1 .. Len(s) :
                 (to + n <= Len(s) + 1 /\ from + n <= Len(s) + 1) =>
                     eclib_memmove(s, to, from, n) = [i \in DOMAIN s |-> IF i \in to .. to + n - 1 THEN s[i - to + from] ELSE s[i]]
           /\ Len(toks) = Cardinality(starts) /\ FlattenSeq(toks) = SelectSeq(s, LAMBDA c : c # d)
           /\ LET p == Packed(<<s, t, s>>, n + 3)
              IN p.used < n + 3 /\ p.used = Len(FlattenSeq(p.kept)) + Len(p.kept)

\* The library as a whole.
EclibLocalCorrect == EnvironmentKept /\ AnnouncementsAgree /\ TokenOfOwner /\ ToldBeforePowerOff /\ UtilsCorrect
====

---- MODULE MCSystems ----
(***************************************************************************)
(* Components of E-comOS that do not interact, in one state space: part    *)
(* says which of them a behaviour is about; the others stay as they start. *)
(***************************************************************************)
EXTENDS Wm2ud, Dhcp, Nefs, InitService, Dos25, HashTable, OutputSync, Eclib, Fcef

CONSTANTS h1, h2, h3

VARIABLE part

\* h1 and h2 are two runs of the program's own client.
Macs == [h \in Hosts |-> IF h = h3 THEN h3 ELSE h1]

\* Keys 1 to 3 start at the same slot, with the same increment or another.
StartSlots == [k \in HtKeys |-> IF k = 4 THEN 2 ELSE 1]
Increments == [k \in HtKeys |-> k]

\* Names of which one begins another, and values with a "=" of their own.
EnvNameSet == {<<"A">>, <<"A", "B">>, << >>}
EnvValueSet == {<< >>, <<"B", "=">>, <<"A">>}

\* Segments inside and outside a file of up to four cells, and one that wraps.
FileCell(offset, filesz, memsz, load) == [offset |-> offset, filesz |-> filesz, memsz |-> memsz, load |-> load]
FileCells == {FileCell(1, 1, 2, TRUE), FileCell(2, 7, 7, TRUE), FileCell(0, 2, 1, FALSE)}
HeaderCell == FileCell(7, 1, 1, TRUE)
AnyFile == eclc_to_fcef(<<FileCell(1, 1, 2, TRUE), FileCell(1, 1, 2, TRUE)>>, 1, 0, 0, 0)

\* A string that fills a buffer, one that fits in none, one too long for any.
StringLengths == [s \in ScStrings |-> <<1, 1, 2, 5, 7, 9>>[s]]

TwoLines == [j \in OutJobs |-> 2]

allVars == <<part, swapVars, dhcpVars, nefsVars, initVars, bootVars, htVars, outVars, ecVars, elVars, fcefVars,
             scVars>>

Init ==
    /\ part \in {"swap", "dhcp", "nefs", "init", "boot", "hash", "output",
                "calls", "local", "fcef", "strings"}
    /\ SwapInit /\ (part # "swap" => total_blocks = Min(SwapDevices))
    /\ DhcpInit /\ (part # "dhcp" => bare /\ pool = Min(PoolSizes))
    /\ nefs_format /\ (part # "nefs" => data_blocks = Min(NefsDevices))
    /\ RegistryInit
    /\ BootInit
    /\ HtInit /\ (part # "hash" => announced = Min(HtAnnounced))
    /\ OutInit /\ (part # "output" => mode = "line")
    /\ EcInit
    /\ (part # "local" => facility = "registry") /\ ElInit
    /\ (part # "fcef" => exe = AnyFile) /\ FcefInit
    /\ ScInit

Next ==
    \/ part = "swap" /\ SwapNext
       /\ UNCHANGED <<part, dhcpVars, nefsVars, initVars, bootVars, htVars, outVars, ecVars, elVars, fcefVars, scVars>>
    \/ part = "dhcp" /\ DhcpNext
       /\ UNCHANGED <<part, swapVars, nefsVars, initVars, bootVars, htVars, outVars, ecVars, elVars, fcefVars, scVars>>
    \/ part = "nefs" /\ NefsNext
       /\ UNCHANGED <<part, swapVars, dhcpVars, initVars, bootVars, htVars, outVars, ecVars, elVars, fcefVars, scVars>>
    \/ part = "init" /\ InitNext
       /\ UNCHANGED <<part, swapVars, dhcpVars, nefsVars, bootVars, htVars, outVars, ecVars, elVars, fcefVars, scVars>>
    \/ part = "boot" /\ BootNext
       /\ UNCHANGED <<part, swapVars, dhcpVars, nefsVars, initVars, htVars, outVars, ecVars, elVars, fcefVars, scVars>>
    \/ part = "hash" /\ HtNext
       /\ UNCHANGED <<part, swapVars, dhcpVars, nefsVars, initVars, bootVars, outVars, ecVars, elVars, fcefVars, scVars>>
    \/ part = "output" /\ OutNext
       /\ UNCHANGED <<part, swapVars, dhcpVars, nefsVars, initVars, bootVars, htVars, ecVars, elVars, fcefVars, scVars>>
    \/ part = "calls" /\ EcNext
       /\ UNCHANGED <<part, swapVars, dhcpVars, nefsVars, initVars, bootVars, htVars, outVars, elVars, fcefVars, scVars>>
    \/ part = "local" /\ ElNext
       /\ UNCHANGED <<part, swapVars, dhcpVars, nefsVars, initVars, bootVars, htVars, outVars, ecVars, fcefVars, scVars>>
    \/ part = "fcef" /\ FcefNext
       /\ UNCHANGED <<part, swapVars, dhcpVars, nefsVars, initVars, bootVars, htVars, outVars, ecVars, elVars, scVars>>
    \/ part = "strings" /\ ScNext
       /\ UNCHANGED <<part, swapVars, dhcpVars, nefsVars, initVars, bootVars, htVars, outVars, ecVars, elVars, fcefVars>>

Spec == Init /\ [][Next]_allVars /\ WF_allVars(part = "output" /\ Next)

\* make finds what it stored: a hash table (HashTable) and the one that names are
\* kept in, whose strings stay where they are (HashTable).
TablesCorrect == CASE part = "hash" -> HashCorrect [] part = "strings" -> StringsInterned [] OTHER -> TRUE

\* No process of two makes waits for another for ever (OutputSync).
OutputEnds == part = "output" => OutputShown

\* What programs get from the C library: its calls of services and what
\* it keeps itself (Eclib), and the files they are loaded from (Fcef).
UserSpaceCorrect ==
    CASE part = "calls" -> EclibCallsCorrect
      [] part = "local" -> EclibLocalCorrect
      [] part = "fcef" -> FcefCorrect
      [] OTHER -> TRUE
====

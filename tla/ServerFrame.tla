----------------------------- MODULE ServerFrame -----------------------------
(***************************************************************************)
(* InitSoftBusServer of softbus_server_frame.c: the server modules are     *)
(* brought up one after another; each init may fail.  A failure of        *)
(* ServerStubInit, SoftBusTimerInit or LooperInit returns at once; any     *)
(* later failure goes to ERR_EXIT, which runs ServerModuleDeinit.  The     *)
(* state is the set of modules currently initialised.                      *)
(***************************************************************************)
EXTENDS Naturals, Sequences

VARIABLES
    step,      \* index into InitOrder of the next init call
    phase,     \* "running", "ERR_EXIT" (the label reached) or "returned"
    up,        \* modules whose init has succeeded and that are not deinitialised
    g_isInit   \* the flag GetServerIsInit returns

vars == <<step, phase, up, g_isInit>>

\* The init calls in the order InitSoftBusServer makes them.  The two calls
\* of line 121 are separate entries: `||` skips SoftBusHiDumperInit when
\* InitSoftbusSysEvt fails.
InitOrder ==
    <<"SoftbusConfig", "ServerStub", "SoftBusTimer", "Looper", "ConnServer", "Auth",
      "DiscServer", "BusCenterServer", "TransServer", "DiscEventManager",
      "WifiDirect", "ConnBleDirect", "SoftbusSysEvt", "SoftBusHiDumper", "SoftBusBt">>

Modules == {InitOrder[i] : i \in DOMAIN InitOrder}

\* Void inits, which cannot report a failure.
CannotFail == {"SoftbusConfig", "SoftBusBt"}

\* Failures that `return` without any deinit.
ReturnOnFailure == {"ServerStub", "SoftBusTimer", "Looper"}

\* The modules ServerModuleDeinit deinitialises.
ServerModuleDeinit ==
    {"DiscEventManager", "DiscServer", "ConnServer", "TransServer", "BusCenterServer",
     "Auth", "SoftBusTimer", "Looper", "SoftBusHiDumper", "SoftbusSysEvt"}

Init ==
    /\ step = 1
    /\ phase = "running"
    /\ up = {}
    /\ g_isInit = FALSE

\* The next init call succeeds; after SoftBusBtInit g_isInit is set.
InitSucceeds ==
    /\ phase = "running"
    /\ up' = up \cup {InitOrder[step]}
    /\ IF step = Len(InitOrder)
         THEN phase' = "returned" /\ g_isInit' = TRUE /\ UNCHANGED step
         ELSE step' = step + 1 /\ UNCHANGED <<phase, g_isInit>>

\* The next init call fails: return at once, or go to ERR_EXIT.
InitFails ==
    /\ phase = "running"
    /\ InitOrder[step] \notin CannotFail
    /\ phase' = IF InitOrder[step] \in ReturnOnFailure THEN "returned" ELSE "ERR_EXIT"
    /\ UNCHANGED <<step, up, g_isInit>>

ErrExit ==
    /\ phase = "ERR_EXIT"
    /\ up' = up \ ServerModuleDeinit
    /\ phase' = "returned"
    /\ UNCHANGED <<step, g_isInit>>

\* InitSoftBusServer has returned; the server stays as it is.
Returned ==
    /\ phase = "returned"
    /\ UNCHANGED vars

Next == InitSucceeds \/ InitFails \/ ErrExit \/ Returned

Spec == Init /\ [][Next]_vars /\ WF_vars(Next)

\* A failed InitSoftBusServer leaves none of the modules ServerModuleDeinit
\* tears down initialised: the ERR_EXIT path exists to undo a partial start.
FailedInitLeavesNothingUp ==
    (phase = "returned" /\ ~g_isInit) => up \cap ServerModuleDeinit = {}
=============================================================================

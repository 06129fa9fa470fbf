----------------------------- MODULE LaneRequest -----------------------------
(***************************************************************************)
(* What the lane pending controller promises for one lane request, without *)
(* lists, locks, condition variables or callback threads (spec.md 3-5):    *)
(* a request is refused, or submitted to the Lane Manager, answered once,  *)
(* and concluded.  A sync requester is told exactly the answer; an async   *)
(* client is told success only for a granted lane.  A granted lane ends    *)
(* with the sync caller, bound to a channel, or freed, never left behind.  *)
(***************************************************************************)
CONSTANT Req

VARIABLES
    mode,     \* "none" until the request is shaped, then "sync" or "async"
    status,   \* "idle", "submitted", "answered", "closed"
    answer,   \* the Lane Manager's answer: "none", "granted", "denied"
    told,     \* what the requester or client learns: "none", "ok", "error"
    lane      \* custody of a granted lane: "none", "alloc", "caller", "channel", "freed"

avars == <<mode, status, answer, told, lane>>

Modes == {"sync", "async"}

Init ==
    /\ mode = [r \in Req |-> "none"]
    /\ status = [r \in Req |-> "idle"]
    /\ answer = [r \in Req |-> "none"]
    /\ told = [r \in Req |-> "none"]
    /\ lane = [r \in Req |-> "none"]

\* The request is shaped and its mode fixed.
Prepare(r) ==
    /\ status[r] = "idle" /\ mode[r] = "none"
    /\ \E m \in Modes : mode' = [mode EXCEPT ![r] = m]
    /\ UNCHANGED <<status, answer, told, lane>>

\* Shaping, insertion or submission fails; the requester gets an error.
Refuse(r) ==
    /\ status[r] = "idle"
    /\ \/ UNCHANGED mode
       \/ mode[r] = "none" /\ \E m \in Modes : mode' = [mode EXCEPT ![r] = m]
    /\ status' = [status EXCEPT ![r] = "closed"]
    /\ told' = [told EXCEPT ![r] = "error"]
    /\ UNCHANGED <<answer, lane>>

Submit(r) ==
    /\ status[r] = "idle" /\ mode[r] \in Modes
    /\ status' = [status EXCEPT ![r] = "submitted"]
    /\ UNCHANGED <<mode, answer, told, lane>>

Answer(r) ==
    /\ status[r] = "submitted"
    /\ \E a \in {"granted", "denied"} :
         /\ answer' = [answer EXCEPT ![r] = a]
         /\ lane' = [lane EXCEPT ![r] = IF a = "granted" THEN "alloc" ELSE @]
    /\ status' = [status EXCEPT ![r] = "answered"]
    /\ UNCHANGED <<mode, told>>

\* The sync requester returns the answer and takes the lane; the async
\* client is told the channel outcome, success only for a granted lane, and
\* a granted lane is bound or freed.
Conclude(r) ==
    /\ status[r] = "answered"
    /\ status' = [status EXCEPT ![r] = "closed"]
    /\ IF mode[r] = "sync"
         THEN /\ told' = [told EXCEPT ![r] = IF answer[r] = "granted" THEN "ok" ELSE "error"]
              /\ lane' = [lane EXCEPT ![r] = IF answer[r] = "granted" THEN "caller" ELSE @]
         ELSE \E t \in {"ok", "error"}, l \in {"channel", "freed"} :
              /\ t = "ok" => answer[r] = "granted"
              /\ told' = [told EXCEPT ![r] = t]
              /\ lane' = [lane EXCEPT ![r] = IF answer[r] = "granted" THEN l ELSE @]
              /\ (t = "error" /\ answer[r] = "granted") => l = "freed"
    /\ UNCHANGED <<mode, answer>>

Next == \E r \in Req : Prepare(r) \/ Refuse(r) \/ Submit(r) \/ Answer(r) \/ Conclude(r)

\* A shaped request is decided, an accepted one answered, an answered one
\* concluded.
Spec == Init /\ [][Next]_avars
        /\ \A r \in Req : WF_avars(Submit(r)) /\ WF_avars(Answer(r)) /\ WF_avars(Conclude(r))
=============================================================================

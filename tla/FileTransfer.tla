---------------------------- MODULE FileTransfer ----------------------------
(***************************************************************************)
(* What one file transfer promises, whichever way the file goes: the sink  *)
(* holds a growing prefix of the source, nothing reaches it once the       *)
(* transfer has ended, and a transfer that ends "ok" without having been   *)
(* stopped lacks at most Slack units.  FtpRecvFile (STOR) and FtpSendFile  *)
(* (RETR) are shown to implement it, with different values of Slack.       *)
(***************************************************************************)
EXTENDS Integers

CONSTANT Slack  \* a natural number: units a successful transfer may lack

VARIABLES total,    \* units in the source
          sink,     \* the units the sink holds, in order
          outcome,  \* "running", "ok" or "failed"
          stopped   \* the application is shutting down

ftVars == <<total, sink, outcome, stopped>>

\* The first n units of the source, in order.
Prefix(n) == [i \in 1 .. n |-> i]

Init ==
    /\ total \in Nat
    /\ sink = Prefix(0)
    /\ outcome = "running"
    /\ stopped \in BOOLEAN

Deliver ==
    /\ outcome = "running"
    /\ \E m \in 0 .. total : \E n \in m + 1 .. total :
          sink = Prefix(m) /\ sink' = Prefix(n)
    /\ UNCHANGED <<total, outcome, stopped>>

Complete ==
    /\ outcome = "running"
    /\ \/ stopped
       \/ \E n \in 0 .. total : sink = Prefix(n) /\ n + Slack >= total
    /\ outcome' = "ok"
    /\ UNCHANGED <<total, sink, stopped>>

Fail ==
    /\ outcome = "running"
    /\ outcome' = "failed"
    /\ UNCHANGED <<total, sink, stopped>>

Stop ==
    /\ stopped' = TRUE
    /\ UNCHANGED <<total, sink, outcome>>

Next == Deliver \/ Complete \/ Fail \/ Stop

Spec == Init /\ [][Next]_ftVars
=============================================================================

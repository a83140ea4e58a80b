--------------------------- MODULE OccurrenceLog ---------------------------
(***************************************************************************)
(* What a standing message promises its group, whatever the hosts do:      *)
(* while it runs each occurrence of its schedule is heard at most once, in *)
(* the schedule's order, and after the stop nothing more is heard.  A      *)
(* missed occurrence may be passed over, never made up for later.          *)
(***************************************************************************)
EXTENDS Naturals, Sequences

CONSTANTS
  Messages,     \* the standing messages
  Occurrences   \* message -> the instants its schedule names

VARIABLES
  sent,         \* message -> the occurrences sent, in the order they were
  phase         \* message -> "absent", "running" or "stopped"

logVars == <<sent, phase>>

LogInit ==
  /\ sent = [m \in Messages |-> <<>>]
  /\ phase = [m \in Messages |-> "absent"]

Create(m) ==
  /\ phase[m] = "absent"
  /\ phase' = [phase EXCEPT ![m] = "running"]
  /\ UNCHANGED sent

Stop(m) ==
  /\ phase[m] = "running"
  /\ phase' = [phase EXCEPT ![m] = "stopped"]
  /\ UNCHANGED sent

\* An occurrence goes out only when it is later than every one sent before.
Send(m, o) ==
  /\ phase[m] = "running"
  /\ \A i \in DOMAIN sent[m] : sent[m][i] < o
  /\ sent' = [sent EXCEPT ![m] = Append(@, o)]
  /\ UNCHANGED phase

LogNext == \E m \in Messages : \/ Create(m)
                               \/ Stop(m)
                               \/ \E o \in Occurrences[m] : Send(m, o)

LogSpec == LogInit /\ [][LogNext]_logVars
=============================================================================

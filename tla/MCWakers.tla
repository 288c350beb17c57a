------------------------------ MODULE MCWakers ------------------------------
(***************************************************************************)
(* The two protocols of wakers for TLC: an spsc channel between two tasks, *)
(* and a ReliableChannel with its task.  They share no state, so that it   *)
(* is enough to run one of them at a time; which one is chosen at first.   *)
(***************************************************************************)
EXTENDS Spsc, ReliableWakers

VARIABLE part   \* "spsc" or "reliable"

all == <<vars, wakersVars, part>>

SpscPart(A)     == part = "spsc" /\ A /\ UNCHANGED <<wakersVars, part>>
ReliablePart(A) == part = "reliable" /\ A /\ UNCHANGED <<vars, part>>

MCInit == /\ Init
          /\ WakersInit
          /\ part \in {"spsc", "reliable"}

MCNext == SpscPart(Next) \/ ReliablePart(WakersNext)

\* Fairness of Spsc, for the behaviours in which it runs.
SpscFairness ==
  /\ WF_all(SpscPart(SenderStep))
  /\ WF_all(SpscPart(ReceiverStep))
  /\ WF_all(SpscPart(s.pc = "idle" /\ PollReady))
  /\ WF_all(SpscPart(s.pc = "asleep" /\ woken["send"] /\ PollReady))
  /\ WF_all(SpscPart(r.pc = "idle" /\ RecvCall("poll")))
  /\ WF_all(SpscPart(r.pc = "asleep" /\ woken["recv"] /\ RecvCall("poll")))

\* WakersFairness, likewise.
ReliableFairness ==
  /\ WF_all(ReliablePart(AppStep))
  /\ WF_all(ReliablePart(TaskStep))
  /\ WF_all(ReliablePart(ResendTimer))
  /\ SF_all(ReliablePart(TaskPoll))
  /\ SF_all(ReliablePart(\E n \in Sizes : RecvAck(n)))

MCSpec == MCInit /\ [][MCNext]_all /\ SpscFairness /\ ReliableFairness

=============================================================================

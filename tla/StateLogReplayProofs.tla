------------------------- MODULE StateLogReplayProofs -------------------------
(***************************************************************************)
(* Every restart from a snapshot converges, for logs of any length.        *)
(***************************************************************************)
EXTENDS StateLogReplay, StateLogProofs

\* All that has to be known of the log is that it holds events.
LogInv == log \in Seq(Events)

LEMMA LogIsOfEvents == Spec => []LogInv
<1>1. Init => LogInv
  BY DEF Init, LogInv
<1>2. LogInv /\ [Next]_vars => LogInv'
  BY DEF Next, vars, LogInv
<1> QED  BY <1>1, <1>2, PTL DEF Spec

\* Whatever events are published, a snapshot of any part of the log and a replay of
\* what is retained, interrupted and repeated, give the view of the whole log
\* (LoadSnapshot and ReplayEvents of the consolidator, ApplySnapshot of the hubs).
THEOREM ReplaysConverge == Spec => []ReplayConverges
<1>1. LogInv => ReplayConverges
  <2> SUFFICES ASSUME LogInv PROVE ReplayConverges
    OBVIOUS
  <2>1. Len(log) \in Nat /\ EventsIn(log, 0, Len(log))
    BY DEF LogInv, EventsIn
  <2>2. ASSUME NEW k \in 0..Len(log), NEW r \in 0..k, NEW j \in r..Len(log)
        PROVE  Replay(Replay(Materialized(log, k), log, r, j), log, r, Len(log))
                 = Materialized(log, Len(log))
    BY <2>1, ReplayRecovers
  <2> QED  BY <2>2 DEF ReplayConverges
<1> QED  BY <1>1, LogIsOfEvents, PTL
=============================================================================

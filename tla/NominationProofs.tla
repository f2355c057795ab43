-------------------------- MODULE NominationProofs --------------------------
(***************************************************************************)
(* The safety properties of NominationProtocol, for any nodes, values,     *)
(* slices, drivers and numbers of restarts.                                *)
(*                                                                         *)
(* Every step of a node either restarts it or advances it (Advances): its  *)
(* sets grow, by values its slices allow.  The inductive invariant         *)
(* separates what a node holds in memory from what it has saved, as only   *)
(* the latter survives a restart: others know no more of a node than what  *)
(* it saved (Known), and what a value is backed by is saved, but for the   *)
(* node's own share of it (Backing).                                       *)
(***************************************************************************)
EXTENDS NominationProtocol, TLAPS

NoLater(a, b) == a.votes \subseteq b.votes /\ a.accepted \subseteq b.accepted

Types ==
  /\ TypeOK
  /\ \A n \in Node : started[n] => value[n] # NoValue

Known == \A n \in Node :
  /\ NoLater(saved[n], Own(n)) /\ NoLater(latest[n][n], Own(n))
  /\ \A st \in sent[n] : NoLater(st, saved[n])
  /\ \A m \in Node \ {n} : NoLater(latest[n][m], saved[m])

SavedVoted == \A n \in Node :
  /\ saved[n].accepted \subseteq saved[n].votes
  /\ accepted[n] \subseteq Valid[n]
  /\ \A v \in candidates[n] : v \in accepted[n]

SavedVotes(v) == {m \in Node : v \in saved[m].votes}
SavedAccepts(v) == {m \in Node : v \in saved[m].accepted}

Backing == \A n \in Node :
  /\ \A v \in accepted[n] : \E k \in Node : isQuorum(k, SavedVotes(v) \cup {n})
  /\ \A v \in saved[n].accepted : \E k \in Node : isQuorum(k, SavedVotes(v))
  /\ \A v \in candidates[n] : isQuorum(n, SavedAccepts(v) \cup {n})

(* The inductive invariant.                                                *)
IInv == Types /\ NoBadState /\ Known /\ AcceptedVoted /\ SavedVoted /\ Backing

-----------------------------------------------------------------------------
(* What a step of n that is not a restart may do to the state.             *)
OnlyOf(n) ==
  /\ started' = [started EXCEPT ![n] = started'[n]]
  /\ value' = [value EXCEPT ![n] = value'[n]]
  /\ leaders' = [leaders EXCEPT ![n] = leaders'[n]]
  /\ votes' = [votes EXCEPT ![n] = votes'[n]]
  /\ accepted' = [accepted EXCEPT ![n] = accepted'[n]]
  /\ candidates' = [candidates EXCEPT ![n] = candidates'[n]]
  /\ latest' = [latest EXCEPT ![n] = latest'[n]]
  /\ emitting' = [emitting EXCEPT ![n] = emitting'[n]]
  /\ saved' = [saved EXCEPT ![n] = saved'[n]]
  /\ sent' = [sent EXCEPT ![n] = sent'[n]]

Grows(n) ==
  /\ votes[n] \subseteq votes'[n]
  /\ accepted[n] \subseteq accepted'[n]
  /\ \A v \in accepted'[n] \ accepted[n] :
       v \in Valid[n] /\ v \in votes'[n] /\ federatedAccept(n, latest'[n], v)
  /\ \A v \in candidates'[n] : v \in candidates[n] \/
       (v \in accepted'[n] /\ federatedRatify(n, latest'[n], v))

Learns(n) == \A m \in Node :
  \/ latest'[n][m] = latest[n][m]
  \/ m # n /\ latest'[n][m] \in sent[m]
  \/ m = n /\ latest'[n][m] = Own(n)

Sends(n) ==
  \/ saved'[n] = saved[n] /\ sent'[n] = sent[n]
  \/ /\ isNewerStatement(saved[n], Own(n))
     /\ saved'[n] = Own(n) /\ sent'[n] = sent[n] \cup {Own(n)}
     /\ votes'[n] = votes[n] /\ accepted'[n] = accepted[n]

Emits(n) == emitting'[n] =>
  \/ Modified(n)
  \/ emitting[n] /\ votes'[n] = votes[n] /\ accepted'[n] = accepted[n]
     /\ latest'[n][n] = latest[n][n]

Advances(n) ==
  OnlyOf(n) /\ Grows(n) /\ Learns(n) /\ Sends(n) /\ Emits(n) /\ Types'

-----------------------------------------------------------------------------
(* A quorum among some nodes is one among more.                            *)
LEMMA QuorumMonotone ==
  ASSUME NEW n \in Node, NEW S, NEW T, S \subseteq T, isQuorum(n, S)
  PROVE  isQuorum(n, T)
BY DEF isQuorum

(* What promote does, given the latest statements known.                   *)
LEMMA PromoteFacts ==
  ASSUME Types, NEW n \in Node, NEW m \in Node, NEW st \in Statement,
         NEW known \in [Node -> Statement], promote(n, known, m, st)
  PROVE  /\ votes' = [votes EXCEPT ![n] = votes'[n]]
         /\ accepted' = [accepted EXCEPT ![n] = accepted'[n]]
         /\ candidates' = [candidates EXCEPT ![n] = candidates'[n]]
         /\ latest' = [latest EXCEPT ![n] = known]
         /\ votes'[n] \subseteq Value /\ accepted'[n] \subseteq Value
         /\ candidates'[n] \subseteq Value
         /\ latest'[n] = known
         /\ Grows(n)
<1> DEFINE acceptable == NewlyAccepted(n, known, st)
           newAccepted == accepted[n] \cup (acceptable \cap Valid[n])
           newVotes == votes[n] \cup
             ({ToNominate(n, v) : v \in acceptable} \ {NoValue})
           newCandidates == candidates[n] \cup
             {v \in newAccepted : federatedRatify(n, known, v)}
           fromLeader == IF newCandidates = {} /\ m \in leaders[n]
                         THEN NewValues(n, st, newVotes) ELSE {}
<1>1. PICK chosen \in OneOf(fromLeader) :
         /\ latest' = [latest EXCEPT ![n] = known]
         /\ accepted' = [accepted EXCEPT ![n] = newAccepted]
         /\ candidates' = [candidates EXCEPT ![n] = newCandidates]
         /\ votes' = [votes EXCEPT ![n] = newVotes \cup chosen]
  BY Zenon DEF promote
<1>2. /\ latest'[n] = known /\ accepted'[n] = newAccepted
      /\ candidates'[n] = newCandidates /\ votes'[n] = newVotes \cup chosen
  BY <1>1 DEF Types, TypeOK
<1>3. acceptable \subseteq st.votes /\ acceptable \subseteq Value
  BY DEF NewlyAccepted, Statement
<1>4. \A v \in Value : ToNominate(n, v) \in Value \cup {NoValue}
  BY DriverAssumption DEF ToNominate
<1>5. newVotes \subseteq Value
  BY <1>3, <1>4 DEF Types, TypeOK
<1>6. fromLeader \subseteq Value
  BY <1>4 DEF NewValues, Statement
<1>7. chosen \subseteq Value
  BY <1>6 DEF OneOf
<1>8. newAccepted \subseteq Value /\ newCandidates \subseteq Value
  BY <1>3 DEF Types, TypeOK
<1>9. ASSUME NEW v \in accepted'[n] \ accepted[n]
      PROVE  v \in Valid[n] /\ v \in votes'[n] /\ federatedAccept(n, latest'[n], v)
  <2>1. v \in acceptable /\ v \in Valid[n]
    BY <1>2, <1>9
  <2>2. ToNominate(n, v) = v /\ v \in Value /\ v # NoValue
    BY <2>1, <1>3, ValueAssumption DEF ToNominate
  <2>3. v \in newVotes
    BY <2>1, <2>2
  <2> QED  BY <2>1, <2>3, <1>2 DEF NewlyAccepted
<1>10. Grows(n)
  BY <1>2, <1>9 DEF Grows
<1> QED  BY <1>1, <1>2, <1>5, <1>7, <1>8, <1>10, Zenon

(* Every step that is not a restart advances a node.                       *)
LEMMA ReceiveAdvances ==
  ASSUME IInv, NEW n \in Node, Receive(n)
  PROVE  Advances(n)
<1>1. PICK m \in Node \ {n} : \E st \in sent[m] : ReceiveEnvelope(n, m, st)
  BY DEF Receive
<1>2. PICK st \in sent[m] : ReceiveEnvelope(n, m, st)
  BY <1>1
<1> DEFINE known == [latest[n] EXCEPT ![m] = st]
<1>3. st \in Statement /\ known \in [Node -> Statement] /\ Types
  BY DEF IInv, Types, TypeOK
<1>4. CASE started[n]
  <2>1. promote(n, known, m, st) /\ emitting' = [emitting EXCEPT ![n] = Modified(n)]
    BY <1>2, <1>4 DEF ReceiveEnvelope
  <2>2. /\ votes' = [votes EXCEPT ![n] = votes'[n]]
        /\ accepted' = [accepted EXCEPT ![n] = accepted'[n]]
        /\ candidates' = [candidates EXCEPT ![n] = candidates'[n]]
        /\ latest' = [latest EXCEPT ![n] = known]
        /\ votes'[n] \subseteq Value /\ accepted'[n] \subseteq Value
        /\ candidates'[n] \subseteq Value
        /\ latest'[n] = known
        /\ Grows(n)
    BY <1>3, <2>1, PromoteFacts
  <2>3. UNCHANGED <<started, value, leaders, muted, saved, sent, restarts>>
    BY <1>2 DEF ReceiveEnvelope
  <2>4. OnlyOf(n)
    BY <2>1, <2>2, <2>3, <1>3 DEF OnlyOf, Types, TypeOK
  <2>5. Learns(n)
    BY <2>2, <1>3 DEF Learns, Types, TypeOK
  <2>6. Types'
    BY <2>1, <2>2, <2>3, <1>3, Zenon DEF Types, TypeOK, Modified
  <2>7. Sends(n) /\ Emits(n)
    BY <2>1, <2>3, <1>3 DEF Sends, Emits, Types, TypeOK
  <2> QED  BY <2>2, <2>4, <2>5, <2>6, <2>7 DEF Advances
<1>5. CASE ~started[n]
  <2>1. /\ latest' = [latest EXCEPT ![n] = known]
        /\ UNCHANGED <<votes, accepted, candidates, emitting, started, value,
                       leaders, muted, saved, sent, restarts>>
    BY <1>2, <1>5 DEF ReceiveEnvelope, Types, TypeOK
  <2>2. latest'[n] = known
    BY <2>1, <1>3 DEF Types, TypeOK
  <2>3. OnlyOf(n) /\ Types'
    BY <2>1, <2>2, <1>3 DEF OnlyOf, Types, TypeOK
  <2>4. Learns(n)
    BY <2>2, <1>3 DEF Learns, Types, TypeOK
  <2>5. Grows(n) /\ Sends(n)
    BY <2>1, <1>3 DEF Grows, Sends, Types, TypeOK
  <2>6. Emits(n)
    BY <2>1, <2>2, <1>3 DEF Emits, Types, TypeOK
  <2> QED  BY <2>3, <2>4, <2>5, <2>6 DEF Advances
<1> QED  BY <1>4, <1>5

(* A pass of emitNomination advances the node.                             *)
LEMMA EmitAdvances ==
  ASSUME IInv, NEW n \in Node, emitNomination(n)
  PROVE  Advances(n)
<1> DEFINE known == [latest[n] EXCEPT ![n] = Own(n)]
<1>1. Own(n) \in Statement /\ known \in [Node -> Statement] /\ Types
  BY DEF IInv, Types, TypeOK, Own, Statement
<1>2. promote(n, known, n, Own(n)) /\ emitting' = [emitting EXCEPT ![n] = Modified(n)]
  BY DEF emitNomination
<1>3. /\ votes' = [votes EXCEPT ![n] = votes'[n]]
      /\ accepted' = [accepted EXCEPT ![n] = accepted'[n]]
      /\ candidates' = [candidates EXCEPT ![n] = candidates'[n]]
      /\ latest' = [latest EXCEPT ![n] = known]
      /\ votes'[n] \subseteq Value /\ accepted'[n] \subseteq Value
      /\ candidates'[n] \subseteq Value
      /\ latest'[n] = known
      /\ Grows(n)
  BY <1>1, <1>2, PromoteFacts
<1>4. UNCHANGED <<started, value, leaders, muted, restarts>>
  BY DEF emitNomination
<1>5. \/ UNCHANGED <<saved, sent>>
      \/ /\ ~Modified(n) /\ isNewerStatement(saved[n], Own(n))
         /\ saved' = [saved EXCEPT ![n] = Own(n)]
         /\ sent' = [sent EXCEPT ![n] = @ \cup {Own(n)}]
  BY DEF emitNomination
<1>6. OnlyOf(n)
  BY <1>1, <1>2, <1>3, <1>4, <1>5 DEF OnlyOf, Types, TypeOK
<1>7. Learns(n)
  BY <1>1, <1>3 DEF Learns, Types, TypeOK
<1>8. Types'
  <2>1. emitting' \in [Node -> BOOLEAN]
    BY <1>1, <1>2 DEF Types, TypeOK, Modified
  <2>2. saved' \in [Node -> Statement] /\ sent' \in [Node -> SUBSET Statement]
    <3>1. saved \in [Node -> Statement] /\ sent \in [Node -> SUBSET Statement]
      BY <1>1 DEF Types, TypeOK
    <3>2. CASE UNCHANGED <<saved, sent>>
      BY <3>1, <3>2
    <3>3. CASE /\ saved' = [saved EXCEPT ![n] = Own(n)]
               /\ sent' = [sent EXCEPT ![n] = @ \cup {Own(n)}]
      BY <3>1, <3>3, <1>1
    <3> QED  BY <1>5, <3>2, <3>3
  <2>3. /\ votes' \in [Node -> SUBSET Value] /\ accepted' \in [Node -> SUBSET Value]
        /\ candidates' \in [Node -> SUBSET Value]
        /\ latest' \in [Node -> [Node -> Statement]]
    BY <1>1, <1>3, Zenon DEF Types, TypeOK
  <2> QED  BY <1>1, <1>4, <2>1, <2>2, <2>3 DEF Types, TypeOK
<1>9. Sends(n)
  BY <1>1, <1>5 DEF Sends, Types, TypeOK, Modified
<1>10. Emits(n)
  BY <1>1, <1>2 DEF Emits, Types, TypeOK
<1> QED  BY <1>3, <1>6, <1>7, <1>8, <1>9, <1>10 DEF Advances

(* A round of nominate advances the node.                                  *)
LEMMA NominateAdvances ==
  ASSUME IInv, NEW n \in Node, Nominate(n) \/ NominateAgain(n) \/ Timeout(n)
  PROVE  Advances(n)
<1>1. Types
  BY DEF IInv
<1>2. PICK v \in Value :
        /\ nominate(n, v)
        /\ \/ UNCHANGED <<value, started>>
           \/ /\ value' = [value EXCEPT ![n] = v]
              /\ started' = [started EXCEPT ![n] = TRUE]
  <2>1. CASE Nominate(n)
    <3>1. restarts[n] \in 0 .. MaxRestarts[n]
      BY <1>1, RestartAssumption DEF Types, TypeOK
    <3>2. Proposals[n][restarts[n]] \subseteq Value
      BY <3>1, DriverAssumption
    <3> QED  BY <2>1, <3>2, Zenon DEF Nominate
  <2>2. CASE NominateAgain(n)
    <3>1. restarts[n] \in 0 .. MaxRestarts[n]
      BY <1>1, RestartAssumption DEF Types, TypeOK
    <3>2. Proposals[n][restarts[n]] \subseteq Value
      BY <3>1, DriverAssumption
    <3>3. started' = [started EXCEPT ![n] = TRUE]
      BY <1>1, <2>2 DEF NominateAgain, Types, TypeOK
    <3> QED  BY <2>2, <3>2, <3>3, Zenon DEF NominateAgain
  <2>3. CASE Timeout(n)
    <3>1. value[n] \in Value
      BY <1>1, <2>3 DEF Timeout, Types, TypeOK
    <3> QED  BY <2>3, <3>1 DEF Timeout
  <2> QED  BY <2>1, <2>2, <2>3
<1>3. PICK new \in OneOf(CanLead(n) \ leaders[n]) :
        leaders' = [leaders EXCEPT ![n] = @ \cup new]
  BY <1>2, Zenon DEF nominate, updateRoundLeaders
<1>4. leaders' \in [Node -> SUBSET Node] /\ leaders' = [leaders EXCEPT ![n] = leaders'[n]]
  <2>1. CanLead(n) \subseteq Node
    BY SliceAssumption DEF CanLead
  <2>2. new \subseteq Node
    BY <1>3, <2>1 DEF OneOf
  <2> QED  BY <1>1, <1>3, <2>2 DEF Types, TypeOK
<1>5. PICK pick \in [leaders'[n] -> Value \cup {NoValue}] :
        votes' = [votes EXCEPT ![n] = Proposal(n, v) \cup Picked(pick)]
  BY <1>2, Zenon DEF nominate
<1>6. /\ votes' = [votes EXCEPT ![n] = votes'[n]]
      /\ votes[n] \subseteq votes'[n] /\ votes'[n] \subseteq Value
  <2>1. Picked(pick) \subseteq Value
    BY <1>5 DEF Picked
  <2>2. votes[n] \subseteq Proposal(n, v) /\ Proposal(n, v) \subseteq Value
    BY <1>1 DEF Proposal, Types, TypeOK
  <2> QED  BY <1>1, <1>5, <2>1, <2>2 DEF Types, TypeOK
<1>7. /\ emitting' = [emitting EXCEPT ![n] = votes'[n] # votes[n]]
      /\ UNCHANGED <<accepted, candidates, latest, muted, saved, sent, restarts>>
  BY <1>2 DEF nominate
<1>8. OnlyOf(n)
  BY <1>1, <1>2, <1>4, <1>6, <1>7 DEF OnlyOf, Types, TypeOK
<1>9. Types'
  <2>1. emitting' \in [Node -> BOOLEAN]
    BY <1>1, <1>7 DEF Types, TypeOK
  <2>2. started' \in [Node -> BOOLEAN] /\ value' \in [Node -> Value \cup {NoValue}]
    <3>1. started \in [Node -> BOOLEAN] /\ value \in [Node -> Value \cup {NoValue}]
      BY <1>1 DEF Types, TypeOK
    <3>2. CASE UNCHANGED <<value, started>>
      BY <3>1, <3>2
    <3>3. CASE /\ value' = [value EXCEPT ![n] = v]
               /\ started' = [started EXCEPT ![n] = TRUE]
      BY <3>1, <3>3
    <3> QED  BY <1>2, <3>2, <3>3
  <2>3. votes' \in [Node -> SUBSET Value]
    BY <1>1, <1>6 DEF Types, TypeOK
  <2>4. TypeOK'
    BY <1>1, <1>4, <1>7, <2>1, <2>2, <2>3 DEF Types, TypeOK
  <2>5. \A m \in Node : started'[m] => value'[m] # NoValue
    BY <1>1, <1>2, ValueAssumption DEF Types, TypeOK
  <2> QED  BY <2>4, <2>5 DEF Types
<1>10. Grows(n) /\ Learns(n) /\ Sends(n)
  BY <1>6, <1>7 DEF Grows, Learns, Sends
<1>11. Emits(n)
  BY <1>1, <1>7 DEF Emits, Modified, Types, TypeOK
<1> QED  BY <1>8, <1>9, <1>10, <1>11 DEF Advances

(* stopNomination and setFullyValidated advance it, in a trivial way.      *)
LEMMA StopAdvances ==
  ASSUME IInv, NEW n \in Node, StopNomination(n) \/ setFullyValidated(n)
  PROVE  Advances(n)
<1>1. Types
  BY DEF IInv
<1>2. OnlyOf(n) /\ Types'
  BY <1>1 DEF StopNomination, setFullyValidated, OnlyOf, Types, TypeOK
<1>3. Grows(n) /\ Learns(n) /\ Sends(n) /\ Emits(n)
  BY DEF StopNomination, setFullyValidated, Grows, Learns, Sends, Emits
<1> QED  BY <1>2, <1>3 DEF Advances

(* An advance leaves the other nodes alone, and saves what the node holds. *)
LEMMA AdvanceFacts ==
  ASSUME IInv, NEW n \in Node, Advances(n)
  PROVE  /\ \A m \in Node \ {n} :
              /\ votes'[m] = votes[m] /\ accepted'[m] = accepted[m]
              /\ candidates'[m] = candidates[m] /\ latest'[m] = latest[m]
              /\ saved'[m] = saved[m] /\ sent'[m] = sent[m]
              /\ emitting'[m] = emitting[m]
         /\ \A m \in Node : NoLater(saved[m], saved'[m])
         /\ NoLater(saved'[n], Own(n)) /\ NoLater(saved'[n], Own(n)')
<1>1. TypeOK /\ Known
  BY DEF IInv, Types
<1>2. \A m \in Node \ {n} :
        /\ votes'[m] = votes[m] /\ accepted'[m] = accepted[m]
        /\ candidates'[m] = candidates[m] /\ latest'[m] = latest[m]
        /\ saved'[m] = saved[m] /\ sent'[m] = sent[m]
        /\ emitting'[m] = emitting[m]
  BY <1>1 DEF Advances, OnlyOf, TypeOK
<1>3. NoLater(saved[n], saved'[n]) /\ NoLater(saved'[n], Own(n))
  BY <1>1 DEF Known, NoLater, Advances, Sends, Own
<1>4. NoLater(Own(n), Own(n)')
  BY DEF NoLater, Own, Advances, Grows
<1>5. \A m \in Node : NoLater(saved[m], saved'[m])
  BY <1>2, <1>3 DEF NoLater
<1> QED  BY <1>2, <1>3, <1>4, <1>5 DEF NoLater

(* Others still know no more than what is saved, and emission is valid.    *)
LEMMA AdvanceKnown ==
  ASSUME IInv, NEW n \in Node, Advances(n)
  PROVE  NoBadState' /\ Known'
<1>1. TypeOK /\ Known /\ NoBadState
  BY DEF IInv, Types
<1>2. /\ \A m \in Node \ {n} :
           /\ votes'[m] = votes[m] /\ accepted'[m] = accepted[m]
           /\ candidates'[m] = candidates[m] /\ latest'[m] = latest[m]
           /\ saved'[m] = saved[m] /\ sent'[m] = sent[m]
           /\ emitting'[m] = emitting[m]
      /\ \A m \in Node : NoLater(saved[m], saved'[m])
      /\ NoLater(saved'[n], Own(n)) /\ NoLater(saved'[n], Own(n)')
  BY AdvanceFacts
<1>3. NoLater(latest'[n][n], Own(n)) /\ NoLater(Own(n), Own(n)')
  BY <1>1 DEF Known, Advances, Learns, Grows, NoLater, Own
<1>4. \A m \in Node : \A st \in sent'[m] : NoLater(st, saved'[m])
  <2>1. \A m \in Node : \A st \in sent[m] : NoLater(st, saved'[m])
    BY <1>1, <1>2 DEF Known, NoLater
  <2>2. NoLater(Own(n), Own(n))
    BY DEF NoLater
  <2>3. \A st \in sent'[n] : NoLater(st, saved'[n])
    BY <2>1, <2>2 DEF Advances, Sends
  <2> QED  BY <1>2, <2>1, <2>3
<1>5. \A m \in Node \ {n} : NoLater(latest'[n][m], saved'[m])
  BY <1>1, <1>2 DEF Known, Advances, Learns
<1>6. ASSUME NEW k \in Node \ {n}, NEW m \in Node \ {k}
      PROVE  NoLater(latest'[k][m], saved'[m])
  BY <1>1, <1>2 DEF Known, NoLater
<1>7. ASSUME NEW k \in Node \ {n}
      PROVE  Own(k)' = Own(k)
  BY <1>2 DEF Own
<1>8. ASSUME NEW k \in Node
      PROVE  NoLater(saved'[k], Own(k)') /\ NoLater(latest'[k][k], Own(k)')
  <2>1. CASE k = n
    BY <2>1, <1>2, <1>3 DEF NoLater
  <2>2. CASE k # n
    BY <2>2, <1>1, <1>2, <1>7 DEF Known
  <2> QED  BY <2>1, <2>2
<1>9. Known'
  BY <1>4, <1>5, <1>6, <1>8 DEF Known
<1>10. ASSUME emitting'[n]
       PROVE  isNewerStatement(latest'[n][n], Own(n)')
  <2>1. CASE Modified(n)
    <3> DEFINE old == latest'[n][n]
    <3>1. /\ old.votes \subseteq votes[n] /\ votes[n] \subseteq votes'[n]
          /\ old.accepted \subseteq accepted[n] /\ accepted[n] \subseteq accepted'[n]
      BY <1>3 DEF NoLater, Own
    <3>2. Own(n)'.votes = votes'[n] /\ Own(n)'.accepted = accepted'[n]
      BY DEF Own
    <3>3. ASSUME old = Own(n)'
          PROVE  votes'[n] = votes[n] /\ accepted'[n] = accepted[n]
      BY <3>1, <3>2, <3>3, Zenon
    <3>4. old # Own(n)'
      BY <2>1, <3>3 DEF Modified
    <3> QED  BY <3>1, <3>2, <3>4 DEF isNewerStatement
  <2>2. CASE /\ emitting[n] /\ votes'[n] = votes[n] /\ accepted'[n] = accepted[n]
             /\ latest'[n][n] = latest[n][n]
    <3>1. Own(n)' = Own(n)
      BY <2>2 DEF Own
    <3>2. isNewerStatement(latest[n][n], Own(n))
      BY <2>2, <1>1 DEF NoBadState
    <3> QED  BY <2>2, <3>1, <3>2 DEF isNewerStatement
  <2> QED  BY <1>10, <2>1, <2>2 DEF Advances, Emits
<1>11. NoBadState'
  BY <1>1, <1>2, <1>7, <1>10 DEF NoBadState
<1> QED  BY <1>9, <1>11

(* Accepted values are still votes.                                        *)
LEMMA AdvanceVoted ==
  ASSUME IInv, NEW n \in Node, Advances(n)
  PROVE  AcceptedVoted' /\ SavedVoted'
<1>1. TypeOK /\ AcceptedVoted /\ SavedVoted
  BY DEF IInv, Types
<1>2. \A m \in Node \ {n} :
        /\ votes'[m] = votes[m] /\ accepted'[m] = accepted[m]
        /\ candidates'[m] = candidates[m] /\ latest'[m] = latest[m]
        /\ saved'[m] = saved[m] /\ sent'[m] = sent[m]
  BY AdvanceFacts
<1>3. accepted'[n] \subseteq votes'[n] /\ accepted'[n] \subseteq Valid[n]
  BY <1>1 DEF AcceptedVoted, SavedVoted, Advances, Grows
<1>4. Own(n).accepted \subseteq Own(n).votes
  BY <1>1 DEF AcceptedVoted, Own
<1>5. \A st \in sent'[n] : st.accepted \subseteq st.votes
  BY <1>1, <1>4 DEF AcceptedVoted, Advances, Sends
<1>6. \A m \in Node : latest'[n][m].accepted \subseteq latest'[n][m].votes
  BY <1>1, <1>4 DEF AcceptedVoted, Advances, Learns
<1>7. saved'[n].accepted \subseteq saved'[n].votes
  BY <1>1, <1>4 DEF SavedVoted, Advances, Sends
<1>8. \A v \in candidates'[n] : v \in accepted'[n]
  BY <1>1 DEF SavedVoted, Advances, Grows
<1>9. AcceptedVoted'
  BY <1>1, <1>2, <1>3, <1>5, <1>6 DEF AcceptedVoted
<1>10. SavedVoted'
  BY <1>1, <1>2, <1>3, <1>7, <1>8 DEF SavedVoted
<1> QED  BY <1>9, <1>10

(* Values are still backed: what n learned of others, they have saved.     *)
LEMMA AdvanceBacking ==
  ASSUME IInv, NEW n \in Node, Advances(n)
  PROVE  Backing'
<1>1. TypeOK /\ Known /\ AcceptedVoted /\ SavedVoted /\ Backing /\ Known' /\ SavedVoted'
  BY AdvanceKnown, AdvanceVoted DEF IInv, Types
<1>2. /\ \A m \in Node \ {n} :
           /\ votes'[m] = votes[m] /\ accepted'[m] = accepted[m]
           /\ candidates'[m] = candidates[m] /\ saved'[m] = saved[m]
      /\ \A m \in Node : NoLater(saved[m], saved'[m])
      /\ NoLater(saved'[n], Own(n))
  BY AdvanceFacts
<1>3. \A v : SavedVotes(v) \subseteq SavedVotes(v)' /\ SavedAccepts(v) \subseteq SavedAccepts(v)'
  BY <1>2 DEF SavedVotes, SavedAccepts, NoLater
<1>4. ASSUME NEW m \in Node, NEW v \in accepted[m]
      PROVE  \E k \in Node : isQuorum(k, SavedVotes(v)' \cup {m})
  <2>1. PICK k \in Node : isQuorum(k, SavedVotes(v) \cup {m})
    BY <1>1 DEF Backing
  <2>2. SavedVotes(v) \cup {m} \subseteq SavedVotes(v)' \cup {m}
    BY <1>3
  <2> QED  BY <2>1, <2>2, QuorumMonotone
<1>5. ASSUME NEW m \in Node, NEW v \in saved[m].accepted
      PROVE  \E k \in Node : isQuorum(k, SavedVotes(v)')
  <2>1. PICK k \in Node : isQuorum(k, SavedVotes(v))
    BY <1>1 DEF Backing
  <2> QED  BY <2>1, <1>3, QuorumMonotone
<1>6. ASSUME NEW m \in Node, NEW v \in candidates[m]
      PROVE  isQuorum(m, SavedAccepts(v)' \cup {m})
  <2>1. isQuorum(m, SavedAccepts(v) \cup {m})
    BY <1>1 DEF Backing
  <2>2. SavedAccepts(v) \cup {m} \subseteq SavedAccepts(v)' \cup {m}
    BY <1>3
  <2> QED  BY <2>1, <2>2, QuorumMonotone
(* What n knows of the others is saved, what it knows of itself it holds.  *)
<1>7. ASSUME NEW v
      PROVE  /\ Voting(latest'[n], v) \subseteq SavedVotes(v)' \cup {n}
             /\ Accepting(latest'[n], v) \subseteq SavedAccepts(v)' \cup {n}
             /\ SavedAccepts(v)' \subseteq SavedVotes(v)'
  BY <1>1 DEF Known, NoLater, Voting, Accepting, SavedVotes, SavedAccepts, SavedVoted
<1>8. ASSUME NEW v \in accepted'[n]
      PROVE  \E k \in Node : isQuorum(k, SavedVotes(v)' \cup {n})
  <2>1. CASE v \in accepted[n]
    BY <2>1, <1>4
  <2>2. CASE v \notin accepted[n]
    <3>1. federatedAccept(n, latest'[n], v)
      BY <2>2 DEF Advances, Grows
    <3>2. CASE isQuorum(n, Accepting(latest'[n], v) \cup Voting(latest'[n], v))
      <4>1. Accepting(latest'[n], v) \cup Voting(latest'[n], v) \subseteq SavedVotes(v)' \cup {n}
        BY <1>7
      <4> QED  BY <3>2, <4>1, QuorumMonotone
    <3>3. CASE isVBlocking(n, Accepting(latest'[n], v))
      <4>1. PICK Q \in QuorumSlices[n] : Q \cap Accepting(latest'[n], v) # {}
        BY <3>3, SliceAssumption DEF isVBlocking
      <4>2. PICK m \in Node : v \in latest'[n][m].accepted
        BY <4>1 DEF Accepting
      <4>3. m # n
        BY <4>2, <2>2, <1>1 DEF Known, NoLater, Own, Advances, Learns
      <4>4. v \in saved[m].accepted
        BY <4>2, <4>3, <1>1, <1>2 DEF Known, NoLater
      <4>5. PICK k \in Node : isQuorum(k, SavedVotes(v)')
        BY <4>4, <1>5
      <4> QED  BY <4>5, QuorumMonotone
    <3> QED  BY <3>1, <3>2, <3>3 DEF federatedAccept
  <2> QED  BY <2>1, <2>2
<1>9. ASSUME NEW v \in saved'[n].accepted
      PROVE  \E k \in Node : isQuorum(k, SavedVotes(v)')
  <2>1. CASE saved'[n] = saved[n]
    BY <2>1, <1>5
  <2>2. CASE saved'[n] = Own(n)
    <3>1. v \in accepted[n] /\ v \in saved'[n].votes
      BY <2>2, <1>1 DEF Own, AcceptedVoted
    <3>2. PICK k \in Node : isQuorum(k, SavedVotes(v)' \cup {n})
      BY <3>1, <1>4
    <3>3. SavedVotes(v)' \cup {n} = SavedVotes(v)'
      BY <3>1 DEF SavedVotes
    <3> QED  BY <3>2, <3>3
  <2> QED  BY <2>1, <2>2 DEF Advances, Sends
<1>10. ASSUME NEW v \in candidates'[n]
       PROVE  isQuorum(n, SavedAccepts(v)' \cup {n})
  <2>1. CASE v \in candidates[n]
    BY <2>1, <1>6
  <2>2. CASE v \notin candidates[n]
    <3>1. isQuorum(n, Accepting(latest'[n], v))
      BY <2>2 DEF Advances, Grows, federatedRatify
    <3> QED  BY <3>1, <1>7, QuorumMonotone
  <2> QED  BY <2>1, <2>2
<1>11. ASSUME NEW m \in Node
       PROVE  /\ \A v \in accepted'[m] : \E k \in Node : isQuorum(k, SavedVotes(v)' \cup {m})
              /\ \A v \in saved'[m].accepted : \E k \in Node : isQuorum(k, SavedVotes(v)')
              /\ \A v \in candidates'[m] : isQuorum(m, SavedAccepts(v)' \cup {m})
  <2>1. CASE m = n
    BY <2>1, <1>8, <1>9, <1>10
  <2>2. CASE m # n
    <3>1. accepted'[m] = accepted[m] /\ saved'[m] = saved[m] /\ candidates'[m] = candidates[m]
      BY <2>2, <1>2
    <3> QED  BY <3>1, <1>4, <1>5, <1>6
  <2> QED  BY <2>1, <2>2
<1> QED  BY <1>11 DEF Backing, isQuorum

(* So does a restart: all that others rely on was saved.                   *)
LEMMA RestartKeeps ==
  ASSUME IInv, NEW n \in Node, setStateFromEnvelope(n)
  PROVE  IInv'
<1>1. TypeOK /\ NoBadState /\ Known /\ AcceptedVoted /\ SavedVoted /\ Backing
  BY DEF IInv, Types
<1>2. /\ started'[n] = FALSE /\ value'[n] = NoValue /\ leaders'[n] = {}
      /\ candidates'[n] = {} /\ emitting'[n] = FALSE
      /\ latest'[n] = [m \in Node |-> IF m = n THEN saved[n] ELSE NoStatement]
      /\ votes'[n] = saved[n].votes /\ accepted'[n] = saved[n].accepted
      /\ UNCHANGED <<saved, sent>>
  BY <1>1 DEF setStateFromEnvelope, Forget, TypeOK
<1>3. \A m \in Node \ {n} :
        /\ votes'[m] = votes[m] /\ accepted'[m] = accepted[m]
        /\ candidates'[m] = candidates[m] /\ latest'[m] = latest[m]
        /\ emitting'[m] = emitting[m] /\ started'[m] = started[m]
        /\ value'[m] = value[m]
  BY <1>1 DEF setStateFromEnvelope, Forget, TypeOK
<1>4. NoStatement \in Statement /\ saved[n] \in Statement
  BY <1>1 DEF NoStatement, Statement, TypeOK
<1>5. TypeOK'
  <2>1. saved[n].votes \subseteq Value /\ saved[n].accepted \subseteq Value
    BY <1>4 DEF Statement
  <2>2. [m \in Node |-> IF m = n THEN saved[n] ELSE NoStatement] \in [Node -> Statement]
    BY <1>4
  <2>3. restarts' \in [Node -> Nat] /\ \A m \in Node : restarts'[m] <= MaxRestarts[m]
    BY <1>1, RestartAssumption DEF setStateFromEnvelope, Forget, TypeOK
  <2> QED  BY <1>1, <2>1, <2>2, <2>3 DEF setStateFromEnvelope, Forget, TypeOK
<1>6. Types'
  BY <1>2, <1>3, <1>5 DEF IInv, Types
<1>7. \A m \in Node \ {n} : Own(m)' = Own(m)
  BY <1>3 DEF Own
<1>8. NoLater(saved[n], Own(n)') /\ \A st \in Statement : NoLater(NoStatement, st)
  BY <1>2 DEF NoLater, Own, NoStatement
<1>9. NoBadState'
  BY <1>1, <1>2, <1>3, <1>7 DEF NoBadState
<1>10. Known'
  <2>1. ASSUME NEW k \in Node
        PROVE  NoLater(saved'[k], Own(k)') /\ NoLater(latest'[k][k], Own(k)')
    <3>1. CASE k = n
      BY <3>1, <1>2, <1>8
    <3>2. CASE k # n
      BY <3>2, <1>1, <1>2, <1>3, <1>7 DEF Known
    <3> QED  BY <3>1, <3>2
  <2>2. ASSUME NEW k \in Node, NEW m \in Node \ {k}
        PROVE  NoLater(latest'[k][m], saved'[m])
    <3>1. CASE k = n
      BY <3>1, <1>1, <1>2, <1>8 DEF TypeOK
    <3>2. CASE k # n
      <4>1. NoLater(latest[k][m], saved[m])
        BY <1>1 DEF Known
      <4>2. latest'[k] = latest[k] /\ saved' = saved
        BY <3>2, <1>2, <1>3
      <4> QED  BY <4>1, <4>2
    <3> QED  BY <3>1, <3>2
  <2>3. ASSUME NEW k \in Node, NEW st \in sent'[k]
        PROVE  NoLater(st, saved'[k])
    BY <1>1, <1>2 DEF Known
  <2> QED  BY <2>1, <2>2, <2>3 DEF Known, NoLater
<1>11. AcceptedVoted'
  <2>1. \A m \in Node : latest'[n][m].accepted \subseteq latest'[n][m].votes
    BY <1>1, <1>2 DEF SavedVoted, NoStatement
  <2>2. accepted'[n] \subseteq votes'[n]
    BY <1>1, <1>2 DEF SavedVoted
  <2> QED  BY <2>1, <2>2, <1>1, <1>2, <1>3 DEF AcceptedVoted
<1>12. SavedVoted'
  <2>1. saved[n].accepted \subseteq accepted[n]
    BY <1>1 DEF Known, NoLater, Own
  <2> QED  BY <2>1, <1>1, <1>2, <1>3 DEF SavedVoted
<1>13. Backing'
  <2>1. \A v : SavedVotes(v)' = SavedVotes(v) /\ SavedAccepts(v)' = SavedAccepts(v)
    BY <1>2 DEF SavedVotes, SavedAccepts
  <2>2. ASSUME NEW m \in Node, NEW v \in accepted'[m]
        PROVE  \E k \in Node : isQuorum(k, SavedVotes(v) \cup {m})
    <3>1. CASE m = n
      <4>1. PICK k \in Node : isQuorum(k, SavedVotes(v))
        BY <3>1, <1>1, <1>2 DEF Backing
      <4> QED  BY <4>1, QuorumMonotone
    <3>2. CASE m # n
      BY <3>2, <1>1, <1>3, Zenon DEF Backing
    <3> QED  BY <3>1, <3>2
  <2>3. ASSUME NEW m \in Node, NEW v \in candidates'[m]
        PROVE  isQuorum(m, SavedAccepts(v) \cup {m})
    <3>1. m # n /\ v \in candidates[m]
      BY <1>2, <1>3
    <3> QED  BY <3>1, <1>1 DEF Backing
  <2>4. ASSUME NEW m \in Node, NEW v \in saved'[m].accepted
        PROVE  \E k \in Node : isQuorum(k, SavedVotes(v))
    BY <1>1, <1>2 DEF Backing
  <2> QED  BY <2>1, <2>2, <2>3, <2>4 DEF Backing, isQuorum
<1> QED  BY <1>6, <1>9, <1>10, <1>11, <1>12, <1>13 DEF IInv

-----------------------------------------------------------------------------
(* The invariant holds at first.                                           *)
LEMMA InvInit == Init => IInv
<1> SUFFICES ASSUME Init PROVE IInv
  OBVIOUS
<1>1. TypeOK
  BY RestartAssumption DEF Init, TypeOK, Statement, NoStatement
<1>2. Types
  BY <1>1 DEF Types, Init
<1>3. NoBadState
  BY DEF Init, NoBadState
<1>4. Known
  BY Zenon DEF Init, Known, NoLater, Own, NoStatement
<1>5. /\ \A n \in Node : accepted[n] = {} /\ candidates[n] = {} /\ sent[n] = {}
      /\ \A n \in Node : saved[n].votes = {} /\ saved[n].accepted = {}
      /\ \A n, m \in Node : latest[n][m].accepted = {}
  BY DEF Init, NoStatement
<1>6. AcceptedVoted /\ SavedVoted
  BY <1>5 DEF AcceptedVoted, SavedVoted
<1>7. Backing
  BY DEF Init, Backing, NoStatement
<1> QED  BY <1>2, <1>3, <1>4, <1>5, <1>6, <1>7 DEF IInv

(* Every step is an advance or a restart.                                  *)
LEMMA NextCases ==
  ASSUME IInv, Next
  PROVE  \E n \in Node : Advances(n) \/ setStateFromEnvelope(n)
BY ReceiveAdvances, EmitAdvances, NominateAdvances, StopAdvances DEF Next

(* A step that changes nothing keeps the invariant.                        *)
LEMMA StutterKeeps ==
  ASSUME IInv, UNCHANGED vars
  PROVE  IInv'
<1>1. /\ UNCHANGED <<started, value, leaders, votes, accepted, candidates>>
      /\ UNCHANGED <<latest, emitting, muted, saved, sent, restarts>>
  BY DEF vars
<1>2. Types /\ NoBadState /\ Known /\ AcceptedVoted /\ SavedVoted /\ Backing
  BY DEF IInv
<1>3. Types'
  BY <1>1, <1>2, Zenon DEF Types, TypeOK
<1>4. Known'
  BY <1>1, <1>2, Zenon DEF Known, NoLater, Own
<1>5. NoBadState' /\ AcceptedVoted' /\ SavedVoted'
  BY <1>1, <1>2, Zenon DEF NoBadState, AcceptedVoted, SavedVoted, Own, isNewerStatement
<1>6. Backing'
  <2>1. \A v : SavedVotes(v)' = SavedVotes(v) /\ SavedAccepts(v)' = SavedAccepts(v)
    BY <1>1 DEF SavedVotes, SavedAccepts
  <2>2. ASSUME NEW n \in Node
        PROVE  /\ \A v \in accepted'[n] : \E k \in Node : isQuorum(k, SavedVotes(v) \cup {n})
               /\ \A v \in saved'[n].accepted : \E k \in Node : isQuorum(k, SavedVotes(v))
               /\ \A v \in candidates'[n] : isQuorum(n, SavedAccepts(v) \cup {n})
    BY <1>1, <1>2 DEF Backing
  <2> QED  BY <2>1, <2>2 DEF Backing, isQuorum
<1> QED  BY <1>3, <1>4, <1>5, <1>6 DEF IInv

(* Every step keeps the invariant.                                         *)
LEMMA InvNext == IInv /\ [Next]_vars => IInv'
<1> SUFFICES ASSUME IInv, [Next]_vars PROVE IInv'
  OBVIOUS
<1>1. CASE Next
  <2>1. PICK n \in Node : Advances(n) \/ setStateFromEnvelope(n)
    BY <1>1, NextCases
  <2>2. CASE Advances(n)
    <3>1. NoBadState' /\ Known'
      BY <2>2, AdvanceKnown
    <3>2. AcceptedVoted' /\ SavedVoted'
      BY <2>2, AdvanceVoted
    <3>3. Backing'
      BY <2>2, AdvanceBacking
    <3> QED  BY <2>2, <3>1, <3>2, <3>3 DEF Advances, IInv
  <2> QED  BY <2>1, <2>2, RestartKeeps
<1>2. CASE UNCHANGED vars
  BY <1>2, StutterKeeps
<1> QED  BY <1>1, <1>2

(* What the invariant says of the properties that the code relies on.      *)
LEMMA InvSafe == IInv => TypeOK /\ NoBadState /\ AcceptedVoted /\ AcceptedBacked /\ CandidateBacked
<1> SUFFICES ASSUME IInv
             PROVE  AcceptedBacked /\ CandidateBacked
  BY DEF IInv, Types
<1>1. Known /\ AcceptedVoted /\ SavedVoted /\ Backing
  BY DEF IInv
<1>2. ASSUME NEW n \in Node, NEW v \in accepted[n]
      PROVE  \E k \in Node : isQuorum(k, {m \in Node : v \in votes[m]})
  <2>1. PICK k \in Node : isQuorum(k, SavedVotes(v) \cup {n})
    BY <1>1 DEF Backing
  <2>2. SavedVotes(v) \cup {n} \subseteq {m \in Node : v \in votes[m]}
    BY <1>1 DEF SavedVotes, Known, NoLater, Own, AcceptedVoted
  <2> QED  BY <2>1, <2>2, QuorumMonotone
<1>3. ASSUME NEW n \in Node, NEW v \in candidates[n]
      PROVE  v \in Valid[n] /\ isQuorum(n, {m \in Node : v \in accepted[m]})
  <2>1. v \in accepted[n] /\ v \in Valid[n]
    BY <1>1 DEF SavedVoted
  <2>2. SavedAccepts(v) \cup {n} \subseteq {m \in Node : v \in accepted[m]}
    BY <2>1, <1>1 DEF SavedAccepts, Known, NoLater, Own
  <2>3. isQuorum(n, SavedAccepts(v) \cup {n})
    BY <1>1 DEF Backing
  <2> QED  BY <2>1, <2>2, <2>3, QuorumMonotone
<1> QED  BY <1>2, <1>3 DEF AcceptedBacked, CandidateBacked

(* emitNomination never hands processEnvelope a statement that it refuses, *)
(* and accepted values are votes, whatever restarts there were.            *)
THEOREM NominationSafe == Spec => [](TypeOK /\ NoBadState /\ AcceptedVoted)
<1>1. IInv => TypeOK /\ NoBadState /\ AcceptedVoted
  BY InvSafe
<1> QED  BY <1>1, InvInit, InvNext, PTL DEF Spec

(* No value is accepted anywhere that a quorum has not voted for, and a    *)
(* candidate is valid and a quorum of its node accepts it, restarts        *)
(* included.                                                               *)
THEOREM BackedSafe == Spec => []Backed
<1>1. IInv => Backed
  BY InvSafe DEF Backed
<1> QED  BY <1>1, InvInit, InvNext, PTL DEF Spec

(* Nodes send ever newer statements, in all their lives together.          *)
THEOREM EmitsNewer == Spec => SentNewer
<1> DEFINE Newer == \A n \in Node : \A st \in sent'[n] \ sent[n] :
             \A old \in sent[n] : isNewerStatement(old, st)
<1>1. IInv /\ [Next]_vars => [Newer]_vars
  <2> SUFFICES ASSUME IInv, Next PROVE Newer
    BY Zenon
  <2>1. PICK n \in Node : Advances(n) \/ setStateFromEnvelope(n)
    BY NextCases
  <2>2. CASE setStateFromEnvelope(n)
    BY <2>2 DEF setStateFromEnvelope, Forget
  <2>3. CASE Advances(n)
    <3>1. \A m \in Node \ {n} : sent'[m] = sent[m]
      BY <2>3, AdvanceFacts
    <3>2. ASSUME NEW st \in sent'[n] \ sent[n], NEW old \in sent[n]
          PROVE  isNewerStatement(old, st)
      <4>1. st = Own(n) /\ isNewerStatement(saved[n], Own(n))
        BY <2>3, <3>2 DEF Advances, Sends
      <4>2. NoLater(old, saved[n])
        BY DEF IInv, Known
      <4>3. old \in sent[n] /\ Own(n) \notin sent[n]
        BY <4>1, <3>2
      <4> QED  BY <4>1, <4>2, <4>3 DEF isNewerStatement, NoLater
    <3> QED  BY <3>1, <3>2
  <2> QED  BY <2>1, <2>2, <2>3
<1> QED  BY <1>1, InvInit, InvNext, PTL DEF Spec, SentNewer
=============================================================================

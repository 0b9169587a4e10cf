---------------------------- MODULE EndingProofs ----------------------------
(***************************************************************************)
(* The votes and the winner of a running game, proved for any number of    *)
(* players, any teams, percentages, limits and commands.                   *)
(***************************************************************************)
EXTENDS Ending, FiniteSetTheorems, TLAPS

-----------------------------------------------------------------------------
(* The types, and what an admin's !end leaves behind: a winner that was    *)
(* asked for was asked for by a team.                                      *)
Types ==
  /\ players \subseteq Players
  /\ ffVotes \subseteq Players /\ rmkVotes \subseteq Players /\ kickVotes \subseteq Players
  /\ victim \in Players \cup {Nobody}
  /\ rmkOpen \in BOOLEAN
  /\ endTeam \in Teams \cup {0} /\ endWinner \in Teams \cup {0}
  /\ winner \in Teams \cup {0}
  /\ endAsked \in BOOLEAN

Asked == endAsked \/ endWinner # 0 => endTeam \in Teams

\* the votes, as far as they do not depend on one another
Voters ==
  /\ ffVotes \cup rmkVotes \cup kickVotes \subseteq players
  /\ victim # Nobody => victim \in players

\* a vote on a rematch that is open is open
RmkUndecided == rmkOpen => Cardinality(rmkVotes) < Cardinality(players) - 1

LEMMA Counts ==
  ASSUME NEW S \in SUBSET Players
  PROVE  IsFiniteSet(S) /\ Cardinality(S) \in Nat
BY EndingAssumption, FS_Subset, FS_CardinalityType

LEMMA TeamsDiffer == \A t \in Teams : Other(t) \in Teams /\ Other(Other(t)) = t /\ Other(t) # t
BY DEF Teams, Other

LEMMA FastFinishType ==
  ASSUME NEW votes, FastFinish(votes), Types
  PROVE  winner' \in Teams \cup {0}
BY DEF FastFinish, Types, Teams

-----------------------------------------------------------------------------
(* The votes.                                                              *)

LEMMA RmkStep ==
  ASSUME Types, Voters, RmkUndecided, NEW p \in Players, Rmk(p)
  PROVE  Types' /\ Voters' /\ RmkUndecided'
<1>1. /\ p \in players /\ players' = players
      /\ rmkVotes' = IF rmkOpen THEN rmkVotes \union {p} ELSE {p}
      /\ UNCHANGED <<ffVotes, kickVotes, victim, endTeam, endWinner, endAsked, winner>>
  BY DEF Rmk, Typed, kick, asked
<1>2. rmkVotes' \subseteq players
  BY <1>1 DEF Voters
<1>3. rmkOpen' \in BOOLEAN /\ (rmkOpen' => ~(Cardinality(rmkVotes') >= Cardinality(players) - 1))
  BY DEF Rmk
<1>4. Cardinality(rmkVotes') \in Nat /\ Cardinality(players) \in Nat
  BY <1>2, Counts DEF Types
<1> QED  BY <1>1, <1>2, <1>3, <1>4 DEF Types, Voters, RmkUndecided

LEMMA LeaveStep ==
  ASSUME Types, Voters, NEW p \in Players, Leave(p)
  PROVE  Types' /\ Voters' /\ RmkUndecided'
<1>1. /\ players' = players \ {p} /\ rmkOpen' = FALSE /\ victim' = Nobody
      /\ rmkVotes' = rmkVotes \ {p} /\ kickVotes' = kickVotes \ {p} /\ ffVotes' = ffVotes \ {p}
      /\ UNCHANGED <<endTeam, endWinner, endAsked>>
  BY DEF Leave, GivesUp, asked
<1>2. winner' \in Teams \cup {0}
  BY FastFinishType DEF Leave, GivesUp, Types
<1> QED  BY <1>1, <1>2 DEF Types, Voters, RmkUndecided

\* who gives up or goes on
LEMMA GiveUpStep ==
  ASSUME Types, Voters, RmkUndecided, NEW p \in Players, GiveUp(p) \/ GoOn(p)
  PROVE  Types' /\ Voters' /\ RmkUndecided'
<1>1. /\ p \in players
      /\ ffVotes' \in {ffVotes \cup {p}, ffVotes \ {p}}
      /\ UNCHANGED <<players, rmkOpen, rmkVotes, kickVotes, victim, endTeam, endWinner, endAsked>>
  BY DEF GiveUp, GoOn, Typed, kick, rmk, asked
<1>2. winner' \in Teams \cup {0}
  BY FastFinishType DEF GiveUp, GoOn
<1> QED  BY <1>1, <1>2 DEF Types, Voters, RmkUndecided

LEMMA KickVoteStep ==
  ASSUME Types, Voters, RmkUndecided, NEW p \in Players,
         Yes(p) \/ \E v \in Players : VoteKick(p, v)
  PROVE  Types' /\ Voters' /\ RmkUndecided'
<1>1. /\ p \in players
      /\ kickVotes' \in {kickVotes \cup {p}, {p}}
      /\ victim' \in players \cup {Nobody, victim}
      /\ UNCHANGED <<players, rmkOpen, rmkVotes, ffVotes, endTeam, endWinner, endAsked, winner>>
  BY DEF Yes, VoteKick, Typed, rmk, asked
<1> QED  BY <1>1 DEF Types, Voters, RmkUndecided

\* no other step touches the votes, but to close one
VotesStand ==
  /\ UNCHANGED <<players, ffVotes, rmkVotes, kickVotes>>
  /\ victim' \in {victim, Nobody} /\ rmkOpen' \in {rmkOpen, FALSE}

LEMMA VotesStandKeeps ==
  ASSUME Voters, RmkUndecided, VotesStand
  PROVE  Voters' /\ RmkUndecided'
<1>1. Voters'
  BY DEF Voters, VotesStand
<1>2. rmkOpen' => rmkOpen
  BY DEF VotesStand
<1> QED  BY <1>1, <1>2 DEF RmkUndecided, VotesStand

\* the steps that have nothing to do with votes
Others ==
  \/ \E p \in Players : \/ \E w \in {0} \cup Teams : End(p, w)
                        \/ EndNow(p) \/ StopCountdown(p) \/ Override(p)
  \/ KickVoteEnds \/ RmkVoteEnds \/ RequestExpires
  \/ CountdownOver \/ BaseFalls \/ StartTimer \/ TimerOver
  \/ SaveGameData \/ Saved \/ Delete

LEMMA OthersStand == Others => VotesStand
BY DEF Others, VotesStand, End, EndNow, StopCountdown, Override, KickVoteEnds, RmkVoteEnds,
       RequestExpires, CountdownOver, BaseFalls, StartTimer, TimerOver, SaveGameData, Saved,
       Delete, kick, rmk

-----------------------------------------------------------------------------
(* !end.                                                                   *)

LEMMA EndStep ==
  ASSUME Types, Asked, NEW p \in Players, NEW w \in {0} \cup Teams, End(p, w)
  PROVE  /\ Asked'
         /\ endTeam' \in Teams \cup {0} /\ endWinner' \in Teams \cup {0} /\ endAsked' \in BOOLEAN
         /\ winner' \in Teams \cup {0}
<1>1. Team(p) \in Teams
  BY DEF Team, Teams
<1>2. CASE Ask(p, w) /\ winner' = winner
  BY <1>1, <1>2 DEF Ask, Asked, Types
<1>3. CASE UNCHANGED asked /\ winner' \in {winner, endWinner}
  BY <1>3 DEF asked, Asked, Types
<1> QED  BY <1>2, <1>3 DEF End

LEMMA OthersTypes ==
  ASSUME Types, Asked, Others
  PROVE  Types' /\ Asked'
<1>1. VotesStand
  BY OthersStand
<1> DEFINE Fine == /\ endTeam \in Teams \cup {0} /\ endWinner \in Teams \cup {0}
                   /\ endAsked \in BOOLEAN /\ winner \in Teams \cup {0}
<1>2. Asked' /\ Fine'
  <2>1. CASE \E p \in Players, w \in {0} \cup Teams : End(p, w)
    BY <2>1, EndStep
  <2>2. ASSUME NEW p \in Players, EndNow(p) PROVE Asked' /\ Fine'
    <3>1. Team(p) \in Teams
      BY DEF Team, Teams
    <3> QED  BY <2>2, <3>1 DEF EndNow, Ask, Asked, asked, Types
  <2>3. CASE RequestExpires
    BY <2>3 DEF RequestExpires, Asked, Types
  <2>4. CASE UNCHANGED <<asked, winner>>
    BY <2>4 DEF asked, Asked, Types
  <2>5. \/ \E p \in Players : (\E w \in {0} \cup Teams : End(p, w)) \/ EndNow(p)
        \/ RequestExpires \/ UNCHANGED <<asked, winner>>
    BY DEF Others, StopCountdown, Override, KickVoteEnds, RmkVoteEnds,
           CountdownOver, BaseFalls, StartTimer, TimerOver, SaveGameData, Saved, Delete
  <2> QED  BY <2>1, <2>2, <2>3, <2>4, <2>5
<1>3. rmkOpen' \in BOOLEAN /\ victim' \in Players \cup {Nobody}
  BY <1>1 DEF VotesStand, Types
<1> QED  BY <1>1, <1>2, <1>3 DEF Types, VotesStand

-----------------------------------------------------------------------------
(* The invariant.                                                          *)

IInv == Types /\ Asked /\ Voters /\ RmkUndecided

LEMMA InitInv == Init => IInv
BY EndingAssumption DEF Init, IInv, Types, Asked, Voters, RmkUndecided

LEMMA StepInv == IInv /\ [Next]_vars => IInv'
<1> SUFFICES ASSUME IInv, [Next]_vars PROVE IInv'
  OBVIOUS
<1> USE DEF IInv
<1>1. ASSUME NEW p \in Players,
             \/ GiveUp(p) \/ GoOn(p) \/ Rmk(p) \/ Yes(p)
             \/ \E v \in Players : VoteKick(p, v)
             \/ Leave(p)
      PROVE  IInv'
  <2>1. Types' /\ Voters' /\ RmkUndecided'
    BY <1>1, GiveUpStep, RmkStep, KickVoteStep, LeaveStep
  <2>2. UNCHANGED asked
    BY <1>1 DEF GiveUp, GoOn, Rmk, Yes, VoteKick, Leave, GivesUp
  <2> QED  BY <2>1, <2>2 DEF Asked, asked
<1>2. CASE Others
  BY <1>2, OthersTypes, OthersStand, VotesStandKeeps
<1>3. CASE UNCHANGED vars
  BY <1>3 DEF vars, kick, rmk, asked, Types, Asked, Voters, RmkUndecided
<1> QED  BY <1>1, <1>2, <1>3 DEF Next, Others

LEMMA IInvHolds == Spec => []IInv
BY InitInv, StepInv, PTL DEF Spec

(* A vote is about somebody who is there, those who have a say are there,  *)
(* and a vote on a rematch that is open can go either way, whoever leaves  *)
(* and in whatever order (CGame::EventPlayerDeleted closes the votes).     *)
THEOREM VotesStayOpen == Spec => []VotesAreOpen
<1>1. IInv => VotesAreOpen
  BY DEF IInv, Voters, RmkUndecided, VotesAreOpen
<1> QED  BY <1>1, IInvHolds, PTL

-----------------------------------------------------------------------------
(* The winner.                                                             *)

\* the countdown of a team that gave up: all of it has, in votes
LEMMA FastFinishWinner ==
  ASSUME NEW votes, FastFinish(votes), winner' # winner
  PROVE  /\ winner' \in Teams
         /\ InTeam(Other(winner')) # {} /\ InTeam(Other(winner')) \subseteq votes
BY DEF FastFinish, Lost, Teams, Other

\* one who is no admin names a winner only by agreeing to the other team
LEMMA EndWinner ==
  ASSUME Types, Asked, NEW p \in Players, NEW w \in {0} \cup Teams, End(p, w), winner' # winner
  PROVE  w \in Teams /\ (p \in Admins \/ endTeam = Other(Team(p)))
<1>1. w # 0
  BY DEF End
<1>2. CASE Accepts(p, w)
  <2>1. endTeam # Team(p) /\ endTeam \in Teams
    BY <1>1, <1>2 DEF Accepts, Asked
  <2>2. Team(p) \in Teams
    BY DEF Team, Teams
  <2> QED  BY <1>1, <2>1, <2>2 DEF Other, Teams
<1>3. CASE ~Accepts(p, w)
  BY <1>1, <1>3 DEF End
<1> QED  BY <1>2, <1>3

(* A winner is recorded by an admin, by somebody who agrees to the other   *)
(* team's !end, or because everybody of the other team who is there has    *)
(* given up or is just leaving (EventDotaGameFastFinishProcess).           *)
THEOREM LoserHasGivenUp == Spec => LoserGaveUp
<1> DEFINE Given ==
      \/ \E p \in Players, w \in Teams : End(p, w) /\ (p \in Admins \/ endTeam = Other(Team(p)))
      \/ /\ winner' \in Teams
         /\ InTeam(Other(winner')) # {}
         /\ InTeam(Other(winner')) \subseteq ffVotes \union ffVotes' \union (players \ players')
<1>1. IInv /\ [Next]_vars => [winner' # winner => Given]_vars
  <2> SUFFICES ASSUME IInv, Next, winner' # winner PROVE Given
    OBVIOUS
  <2>1. ASSUME NEW p \in Players, GiveUp(p) \/ GoOn(p) PROVE Given
    BY <2>1, FastFinishWinner DEF GiveUp, GoOn
  <2>2. ASSUME NEW p \in Players, Leave(p) PROVE Given
    <3>1. FastFinish(ffVotes \cup {p}) /\ p \in players /\ players' = players \ {p}
      BY <2>2 DEF Leave, GivesUp
    <3> QED  BY <3>1, FastFinishWinner
  <2>3. ASSUME NEW p \in Players, NEW w \in {0} \cup Teams, End(p, w) PROVE Given
    BY <2>3, EndWinner DEF IInv
  <2>4. \E p \in Players : \/ GiveUp(p) \/ GoOn(p) \/ Leave(p)
                           \/ \E w \in {0} \cup Teams : End(p, w)
    BY DEF Next, Rmk, Yes, VoteKick, EndNow, StopCountdown, Override, KickVoteEnds, RmkVoteEnds,
           RequestExpires, CountdownOver, BaseFalls, StartTimer, TimerOver, SaveGameData, Saved,
           Delete
  <2> QED  BY <2>1, <2>2, <2>3, <2>4
<1> QED  BY <1>1, IInvHolds, PTL DEF Spec, LoserGaveUp

=============================================================================

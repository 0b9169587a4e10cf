------------------------------- MODULE Ending --------------------------------
(***************************************************************************)
(* How a running game comes to its end: the votes of its players, the      *)
(* commands and timers of src/ghost/game.cpp and src/ghost/game_base.cpp.  *)
(*                                                                         *)
(* A game ends when its base has fallen, when too few players are left,    *)
(* when all but one vote for a rematch (!rmk), when a team gives up (!ff), *)
(* or by an admin's !end, to which bot_endreq2ndteamaccept makes somebody  *)
(* of the other team agree.  All but the first two start one countdown,    *)
(* the others one timer; each of them can be stopped.  Then the bot drops  *)
(* the players, and a game without players is saved and deleted.           *)
(*                                                                         *)
(* The bot's own clock is not modelled: what waits for it may happen any   *)
(* time.  A definition whose name ends in _Slip is not part of the model:  *)
(* it is the definition below it with a likely mistake.                    *)
(***************************************************************************)
EXTENDS Naturals, FiniteSets

CONSTANTS
  Players,        \* the players when the game has loaded
  Sentinel,       \* those of the first team
  Admins,         \* those who are admins, none of them a root admin
  Reserved,       \* those who are not voted on
  Nobody,
  KickAllowed,    \* bot_votekickallowed
  KickPercentage, \* bot_votekickpercentage
  EndAccept,      \* bot_endreq2ndteamaccept
  BaseFallen,     \* bot_gameoverbasefallen > 0
  MinPlayers,     \* bot_gameoverminplayers
  MaxCommands     \* bound: commands that are typed

ASSUME EndingAssumption ==
  /\ IsFiniteSet(Players) /\ Sentinel \subseteq Players
  /\ Admins \subseteq Players /\ Reserved \subseteq Players /\ Nobody \notin Players
  /\ KickAllowed \in BOOLEAN /\ EndAccept \in BOOLEAN /\ BaseFallen \in BOOLEAN
  /\ KickPercentage \in 0 .. 100 /\ MinPlayers \in Nat /\ MaxCommands \in Nat

VARIABLES
  players,    \* m_Players
  marked,     \* those with m_DeleteMe
  ffVotes,    \* those with m_FFVote
  rmkOpen,    \* ~m_RmkVotePlayer.empty(): is there a vote on a rematch?
  rmkVotes,   \* those with m_RmkVote
  victim,     \* m_KickVotePlayer
  kickVotes,  \* those with m_KickVote
  ending,     \* m_GameEndCountDownStarted
  overTimer,  \* m_GameOverTime # 0
  canceled,   \* m_GameOverCanceled
  ended,      \* m_GameEnded: a base has fallen
  endAsked,   \* m_EndRequested
  endWinner,  \* m_RequestedWinner, or 0
  endTeam,    \* m_EndRequestedTeam
  winner,     \* the winner in m_Stats, or 0
  phase,      \* of the end: m_Saving, and whether the database has answered
  typed       \* commands so far

kick  == <<victim, kickVotes>>
rmk   == <<rmkOpen, rmkVotes>>
timer == <<overTimer, canceled, ended>>
asked == <<endAsked, endWinner, endTeam>>
vars  == <<players, marked, ffVotes, kick, rmk, ending, timer, asked, winner, phase, typed>>

Teams == {1, 2}
Team(p) == IF p \in Sentinel THEN 1 ELSE 2
InTeam(t) == {p \in players : Team(p) = t}
Other(t) == 3 - t

Typed(p) == p \in players /\ typed < MaxCommands /\ typed' = typed + 1

-----------------------------------------------------------------------------
(* Giving up.                                                              *)

\* has everybody of the team given up?  A team that is gone has not.
Lost(t, votes) == InTeam(t) # {} /\ InTeam(t) \subseteq votes

FastFinish_Slip(votes) ==                \* one who gives up is enough
  IF \E t \in Teams : InTeam(t) \cap votes # {}
  THEN /\ winner' = IF InTeam(1) \cap votes # {} THEN 2 ELSE 1
       /\ ending' = TRUE
       /\ UNCHANGED overTimer
  ELSE ending' = FALSE /\ overTimer' = FALSE /\ UNCHANGED winner

\* EventDotaGameFastFinishProcess: the countdown starts, or any that runs stops
FastFinish(votes) ==
  IF \E t \in Teams : Lost(t, votes)
  THEN /\ winner' = IF Lost(1, votes) THEN 2 ELSE 1
       /\ ending' = TRUE
       /\ UNCHANGED overTimer
  ELSE ending' = FALSE /\ overTimer' = FALSE /\ UNCHANGED winner

\* !ff
GiveUp(p) ==
  /\ Typed(p) /\ p \notin ffVotes
  /\ ffVotes' = ffVotes \union {p}
  /\ FastFinish(ffVotes')
  /\ UNCHANGED <<players, marked, kick, rmk, canceled, ended, asked, phase>>

\* !noff
GoOn(p) ==
  /\ Typed(p) /\ p \in ffVotes
  /\ ffVotes' = ffVotes \ {p}
  /\ FastFinish(ffVotes')
  /\ UNCHANGED <<players, marked, kick, rmk, canceled, ended, asked, phase>>

-----------------------------------------------------------------------------
(* Votes.                                                                  *)

\* !rmk: all but one have to agree
Rmk(p) ==
  /\ Typed(p) /\ p \notin rmkVotes
  /\ rmkVotes' = IF rmkOpen THEN rmkVotes \union {p} ELSE {p}
  /\ IF Cardinality(rmkVotes') >= Cardinality(players) - 1
     THEN rmkOpen' = FALSE /\ ending' = TRUE
     ELSE rmkOpen' = TRUE /\ UNCHANGED ending
  /\ UNCHANGED <<players, marked, ffVotes, kick, timer, asked, winner, phase>>

\* !votekick
VoteKick(p, v) ==
  /\ KickAllowed /\ Typed(p)
  /\ victim = Nobody /\ Cardinality(players) # 2
  /\ v \in players \ Reserved
  /\ victim' = v
  /\ kickVotes' = {p}
  /\ UNCHANGED <<players, marked, ffVotes, rmk, ending, timer, asked, winner, phase>>

\* the share of the others, rounded up
VotesNeeded == ((Cardinality(players) - 1) * KickPercentage + 99) \div 100

\* !yes
Yes(p) ==
  /\ Typed(p) /\ victim # Nobody /\ p # victim /\ p \notin kickVotes
  /\ kickVotes' = kickVotes \union {p}
  /\ IF Cardinality(kickVotes') >= VotesNeeded
     THEN marked' = marked \union {victim} /\ victim' = Nobody
     ELSE UNCHANGED <<marked, victim>>
  /\ UNCHANGED <<players, ffVotes, rmk, ending, timer, asked, winner, phase>>

\* !votecancel, or the vote expires
KickVoteEnds ==
  /\ victim # Nobody
  /\ victim' = Nobody
  /\ UNCHANGED <<players, marked, ffVotes, kickVotes, rmk, ending, timer, asked, winner, phase, typed>>

RmkVoteEnds ==
  /\ rmkOpen
  /\ rmkOpen' = FALSE
  /\ UNCHANGED <<players, marked, ffVotes, kick, rmkVotes, ending, timer, asked, winner, phase, typed>>

-----------------------------------------------------------------------------
(* !end.                                                                   *)

\* does p agree to what the other team has asked for?
Accepts(p, w) ==
  /\ EndAccept /\ ~ending /\ Team(p) # endTeam
  /\ IF w = 0 THEN endAsked ELSE endWinner = w

\* has the other team to be asked?
MustAsk(p) == EndAccept /\ InTeam(Other(Team(p))) # {}

Ask(p, w) ==
  /\ endTeam' = Team(p)
  /\ endAsked' = (endAsked \/ w = 0)
  /\ endWinner' = IF endWinner = 0 THEN w ELSE endWinner

\* !end, for w = 0, or !end w; of one who is no admin only an acceptance counts
End(p, w) ==
  /\ Typed(p)
  /\ \/ /\ Accepts(p, w)
        /\ ending' = TRUE
        /\ winner' = IF w = 0 THEN winner ELSE endWinner
        /\ UNCHANGED asked
     \/ /\ ~Accepts(p, w) /\ p \in Admins /\ MustAsk(p)
        /\ Ask(p, w)
        /\ UNCHANGED <<ending, winner>>
     \/ /\ ~Accepts(p, w) /\ p \in Admins /\ ~MustAsk(p)
        /\ ending' = TRUE
        /\ winner' = IF w = 0 THEN winner ELSE endWinner
        /\ UNCHANGED asked
  /\ UNCHANGED <<players, marked, ffVotes, kick, rmk, timer, phase>>

\* !endn
EndNow(p) ==
  /\ Typed(p) /\ p \in Admins
  /\ ending' = (ending \/ Accepts(p, 0))
  /\ IF MustAsk(p) THEN Ask(p, 0) /\ UNCHANGED marked
                   ELSE marked' = players /\ UNCHANGED asked
  /\ UNCHANGED <<players, ffVotes, kick, rmk, timer, winner, phase>>

\* !ends
StopCountdown(p) ==
  /\ Typed(p) /\ p \in Admins /\ ending
  /\ ending' = FALSE
  /\ UNCHANGED <<players, marked, ffVotes, kick, rmk, timer, asked, winner, phase>>

\* a request expires, but not one with nothing but a winner
RequestExpires ==
  /\ endAsked
  /\ endAsked' = FALSE /\ endWinner' = 0
  /\ UNCHANGED <<players, marked, ffVotes, kick, rmk, ending, timer, endTeam, winner, phase, typed>>

\* StopPlayers, when the countdown is over
CountdownOver ==
  /\ ending
  /\ ending' = FALSE
  /\ marked' = players
  /\ UNCHANGED <<players, ffVotes, kick, rmk, timer, asked, winner, phase, typed>>

-----------------------------------------------------------------------------
(* The game over timer.                                                    *)

\* the statistics report that a base has fallen
BaseFalls ==
  /\ players # {} /\ ~ended
  /\ ended' = TRUE
  /\ UNCHANGED <<players, marked, ffVotes, kick, rmk, ending, overTimer, canceled, asked, winner, phase, typed>>

FewLeft == players # Players /\ Cardinality(players) < MinPlayers

GameIsOver_Slip == ended /\ BaseFallen   \* forgets those who are left alone

GameIsOver == IF ended THEN BaseFallen ELSE FewLeft

StartTimer ==
  /\ ~canceled /\ ~overTimer /\ GameIsOver
  /\ overTimer' = TRUE
  /\ UNCHANGED <<players, marked, ffVotes, kick, rmk, ending, canceled, ended, asked, winner, phase, typed>>

TimerOver ==
  /\ overTimer /\ ~canceled /\ marked # players
  /\ marked' = players
  /\ UNCHANGED <<players, ffVotes, kick, rmk, ending, timer, asked, winner, phase, typed>>

\* !override
Override(p) ==
  /\ Typed(p) /\ p \in Admins
  /\ canceled' = ~canceled
  /\ overTimer' = (overTimer /\ ~canceled')
  /\ UNCHANGED <<players, marked, ffVotes, kick, rmk, ending, ended, asked, winner, phase>>

-----------------------------------------------------------------------------
(* Players leave, and the game goes.                                       *)

\* CGame::EventPlayerDeleted: one who leaves before the end has given up
GivesUp(p) ==
  IF ~ended /\ p \notin ffVotes
  THEN FastFinish(ffVotes \union {p})
  ELSE UNCHANGED <<ending, overTimer, winner>>

Leave_Slip(p) ==                         \* the votes go on
  /\ p \in players
  /\ players' = players \ {p} /\ marked' = marked \ {p}
  /\ rmkVotes' = rmkVotes \ {p} /\ kickVotes' = kickVotes \ {p}
  /\ GivesUp(p)
  /\ ffVotes' = ffVotes \ {p}
  /\ UNCHANGED <<victim, rmkOpen, canceled, ended, asked, phase, typed>>

\* CBaseGame::EventPlayerDeleted: the votes that go on are aborted
Leave(p) ==
  /\ p \in players
  /\ players' = players \ {p} /\ marked' = marked \ {p}
  /\ rmkOpen' = FALSE /\ victim' = Nobody
  /\ rmkVotes' = rmkVotes \ {p} /\ kickVotes' = kickVotes \ {p}
  /\ GivesUp(p)
  /\ ffVotes' = ffVotes \ {p}
  /\ UNCHANGED <<canceled, ended, asked, phase, typed>>

\* no players for 30 seconds: the game is saved, and deleted when that is done
SaveGameData ==
  /\ players = {} /\ phase = "running"
  /\ phase' = "saving"
  /\ UNCHANGED <<players, marked, ffVotes, kick, rmk, ending, timer, asked, winner, typed>>

Saved ==
  /\ phase = "saving"
  /\ phase' = "saved"
  /\ UNCHANGED <<players, marked, ffVotes, kick, rmk, ending, timer, asked, winner, typed>>

Delete ==
  /\ players = {} /\ phase = "saved"
  /\ phase' = "deleted"
  /\ UNCHANGED <<players, marked, ffVotes, kick, rmk, ending, timer, asked, winner, typed>>

Init ==
  /\ players = Players /\ marked = {}
  /\ ffVotes = {} /\ rmkOpen = FALSE /\ rmkVotes = {}
  /\ victim = Nobody /\ kickVotes = {}
  /\ ending = FALSE /\ overTimer = FALSE /\ canceled = FALSE /\ ended = FALSE
  /\ endAsked = FALSE /\ endWinner = 0 /\ endTeam = 0
  /\ winner = 0 /\ phase = "running" /\ typed = 0

Next ==
  \/ \E p \in Players :
       \/ GiveUp(p) \/ GoOn(p) \/ Rmk(p) \/ Yes(p)
       \/ \E v \in Players : VoteKick(p, v)
       \/ \E w \in {0} \union Teams : End(p, w)
       \/ EndNow(p) \/ StopCountdown(p) \/ Override(p) \/ Leave(p)
  \/ KickVoteEnds \/ RmkVoteEnds \/ RequestExpires
  \/ CountdownOver \/ BaseFalls \/ StartTimer \/ TimerOver
  \/ SaveGameData \/ Saved \/ Delete

Spec == Init /\ [][Next]_vars

\* The bot's loop goes on and so does its clock; the database answers.
Fairness ==
  /\ \A p \in Players : WF_vars(p \in marked /\ Leave(p))
  /\ WF_vars(CountdownOver) /\ WF_vars(StartTimer) /\ WF_vars(TimerOver)
  /\ WF_vars(SaveGameData) /\ WF_vars(Saved) /\ WF_vars(Delete)

FairSpec == Spec /\ Fairness

-----------------------------------------------------------------------------
(* The properties.                                                         *)

\* A vote is about somebody who is there, only those who are there have a say,
\* and one that goes on can still go either way: players who leave do not
\* decide it behind the voters' backs.
VotesAreOpen ==
  /\ ffVotes \union rmkVotes \union kickVotes \subseteq players
  /\ victim # Nobody => victim \in players
  /\ rmkOpen => Cardinality(rmkVotes) < Cardinality(players) - 1

\* A winner is recorded when all players of the other team who are still there
\* have given up or are just leaving, or else by an admin's or an accepted !end.
LoserGaveUp ==
  [][winner' # winner =>
       \/ \E p \in Players, w \in Teams : End(p, w) /\ (p \in Admins \/ endTeam = Other(Team(p)))
       \/ /\ winner' \in Teams
          /\ InTeam(Other(winner')) # {}
          /\ InTeam(Other(winner')) \subseteq ffVotes \union ffVotes' \union (players \ players')]_vars

\* A game in which too few are left is closed in the end, unless an admin says
\* otherwise: players may reset the timer by typing, but do not type for ever.
LonelyGameCloses == FewLeft ~> (phase = "deleted" \/ canceled)

=============================================================================

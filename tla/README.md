# A verification of brtGHost

brtGHost (`src/ghost`) is a hosting bot for Warcraft III.  It logs on to
Battle.net, announces games, lets players join a lobby, starts the map and then
relays the game: Warcraft III is a lockstep simulation, every player's machine
computes the game for itself, and the bot's task is to see that all of them
compute it from the same input.  This directory holds TLA+ specifications of
the parts of the bot where that is hard, TLC configurations that check them on
small instances, and TLAPS proofs of the properties that matter most for
instances of any size.

Contents

1. Inventory: the system's parts
2. The modules and the code
3. The runs
4. Bounds and fairness
5. What is proved
6. Where the code and its comments disagree
7. What the models leave out
8. Plan

## 1. Inventory

The bot is one thread that polls (`CGHost::Update`, ghost.cpp 1419): each pass
selects on all sockets, then calls `Update` of every Battle.net connection, of
the game in the lobby and of every running game.  The only other threads run
database queries ("callables"); their results are polled.  So the
interleavings that matter are those of packets, timers, lost connections,
commands and late database answers between two passes of the loop, and of the
steps of one pass with one another: many events only *mark* an object
(`m_DeleteMe`), and a later pass acts on the mark.

| Component | State | Operations | Hard behaviour | What makes it correct |
|---|---|---|---|---|
| **Lobby** (game_base.cpp, gameslot.cpp, game.cpp) | slot table, player objects, hold list, virtual host and fake player, pending score checks, countdown | join, leave, kick, hold, open/close/computer a slot, swap, shuffle, balance, start, abort | player objects outlive their place; slots and players are tied by a PID only; a slot index is cached; a score answer comes after the state it was asked in | slots and players agree; PIDs and names are distinct; only those with the right displace somebody; the roster does not change in the countdown |
| **Running game** (game_base.cpp, gameplayer.cpp, replay.cpp) | who has loaded, per-player buffers, the replay, sync counters, lag screens, drop votes | load, send an update, lag screen up / reset / down, leave, drop, kick | load-in-game buffers the game for some players only; GProxy++ changes how many empty time slots each player gets; a leave can fall between any two steps | everybody goes through the same updates and leaves in the same order as the replay; nobody is left behind; the game stands still while somebody is waited for, and not for ever |
| **GProxy++** (gameplayer.cpp, ghost.cpp 1791–1895, gpsprotocol.cpp, 3rdparty/gproxy) | at both ends: the number of packets received, the packets not yet acknowledged; at the client: the empty actions it put in | handshake, acknowledgement, reconnect, resend | connections die with packets and acknowledgements on the way, the two ends learn of it at different times | every packet is handed over once and in order, whatever is lost |
| **Commands** (game.cpp) | votes, owner, locks, flags | about 200 commands of admins, owners, players | they act on the state of the pass in which the chat arrives | see lobby, running game, votes |
| **Battle.net connection** (bnet.cpp) | protocol state, two queues of packets with different pauses, friends / clan / ban / admin lists | log on, join a channel, queue a chat line, whisper, announce, refresh and withdraw a game, apply lists from the database | two queues overtake one another; reconnects; answers about a game that has been renamed or closed | a game that is gone is not listed; a public lobby is listed in the end |
| **Main loop and hosting** (ghost.cpp) | games, current lobby, autohost list, sockets, reconnect listener | create, autohost, end a game, accept a reconnecting socket | a game is deleted while callables for it are on the way; the reconnect is matched by PID and key | one lobby at a time; a late answer never reaches a deleted game; a nice exit ends |
| **Database and callables** (ghostdb*.cpp) | connection pool, outstanding callables, ready flags | create, recover, run in a thread | flags shared with the threads without a lock | a connection is in the pool or in use by one thread, never both |
| **Desync detection** (game_base.cpp 4675–4924) | queue of checksums per player | compare when there is one of everybody, drop those outside the largest group | ties, players who leave or are marked with checksums queued, a setting that changes | the same time slots are compared; nobody of a larger side is dropped; no desync is overlooked |
| **Map download** (game_base.cpp 5431–5612, game.cpp, game_admin.cpp) | per-player offset sent, started / finished / allowed flags, download status of the slots | join, displace, leave, kick, refuse; report, start, send a window, finish, allow, change the setting | the status is on the slot, which moves and changes hands; slots know players by PID, which is given again before the old player's object is gone; the settings change under a download | nobody is started without the map; a download ends |
| **Votes and the end of a game** (game.cpp, game_base.cpp 1005–1030, 1460–1640) | name voted on, who voted, the countdown, the game over timer, the request to end, the winner | start, vote, expire, pass, give up, ask for the end, stop, override | voters, victim or a whole team leave in between; two timers and several ways to stop each | a vote is decided by those who are there; no team loses against its players; a deserted game is closed |
| **Savegame and replay files** (savegame.cpp, replay.cpp, packed.cpp) | blocks of a file | read, write | | in the running game's model as the log of time slots and leaves |
| Statistics, admin game, protocols, sockets, brtServer, configuration, ladder updaters, vendored libraries | | | | not modelled, section 7 |

The components interact by direct calls (a game tells its `CGHost` and the
`CBNET`s what to announce, a `CBNET` calls into the current game when an admin
whispers a command), by shared objects (callables) and, to the outside, by
packets.  `PROJECT.json` lists every component with its status, and under
"hazards" each place of this code where an order of events, a late answer, a
limit or a stale value can do harm, with the property that guards it.

## 2. The modules and the code

| Module | Models |
|---|---|
| `Lobby` | one lobby, from the first join to the start of loading |
| `GameLoop` | one game from the start of loading on, with what GProxy++ clients add to it |
| `Broadcast` | the promise of a running game: one history, and everybody at a beginning of it |
| `GProxyLink` | both ends of the link of one GProxy++ player |
| `Channels` | the promise of the link: two channels that lose, repeat and reorder nothing |
| `Desync` | the checksums of a running game and who is dropped for them |
| `Ending` | how a running game ends: votes, giving up, `!end`, timers, saving |
| `Callables` | the pool of database connections and the life of a query's object |
| `Hosting` | the main loop: lobby, games and what they leave to it; composes `Callables` |
| `Listing` | one Battle.net connection and a lobby's way into the server's game list |
| `Download` | the download of the map in the lobby and the checks of the start |
| `MCLobby`, `MCGameLoop`, `MCGProxyLink`, `MCDesync`, `MCEnding`, `MCHosting`, `MCListing`, `MCDownload` | the instances for TLC, with their symmetry sets, if any |
| `LobbyProofs` | proofs about `Lobby` |
| `GameLoopProofs` | proofs about `GameLoop` |
| `GProxyLinkProofs`, `DesyncProofs`, `EndingProofs`, `HostingProofs`, `ListingProofs`, `DownloadProofs` | proofs about `GProxyLink`, `Desync`, `Ending`, `Hosting` with `Callables`, `Listing`, and `Download` |

`PROJECT.json`, "map", names the lines each definition stands for.

### Lobby

`CBaseGame` keeps `m_Slots` (here `slots`: a PID and a kind) and `m_Players`
(`members`, identities from `Conns`, with `name`, `pid` and the cached slot
`sid` as functions).  `doomed` are the objects with `m_DeleteMe`, `left` those
whose leave message went out early (`m_LeftMessageSent`); `Present` is what
the code's lookups see.  `held`/`heldSeat` are the hold list, `vh` and `fake`
the PIDs of the host's own two players, `pending` the names whose join waits
for a score, `countdown`, `counter` and `loading` the start.

| Action | Code |
|---|---|
| `Join`, `ScoreAccepted`, `ScoreRefused` | `EventPlayerJoined` (2755–3819), its first and its second pass around a score check, with everything they call: the search of a slot, the displacement of a player, the ban checks, the owner's, the admins' and the held placement, the removal of the virtual host, the new PID |
| `Depart`, `Reap` | the player loop of `Update` and `EventPlayerDeleted`: a player who goes in its own pass, and one who was marked before |
| `Kick`, `KickUnspoofed`, `RefuseScore` | `!kick` and votes; `Update` 984–998; ghost.cpp 1266–1310 |
| `OpenSeat`, `CloseSeat`, `ComputerSeat`, `OpenAll`, `CloseAll` | the slot commands |
| `Swap`, `PublicSwap`, `ChangeTeam`, `Shuffle`, `BalanceSlots` | moves of slots, with and without the cached index |
| `Hold`, `Unhold` | `AddToReserved`, `DelFromReserved` |
| `CreateFakePlayer`, `DeleteFakePlayer`, `CreateVirtualHost` | the host's players |
| `StartCountDown`, `Abort`, `Tick` | the countdown; the last tick is `EventGameStarted` |

`Reap` is separate from what marks the object: between the two, any other
player, command or timer may act, which is where the lobby's difficulties are.

### GameLoop

`view[c]` is the data player `c`'s game has gone through, `buffer[c]` what is
kept for it while its map loads (`m_LoadInGameData`), `queue[c]` the part of
`m_GProxyBuffer` it has missed while its connection was `cut`, `log` the
replay.  `Hand` gives an item to everybody according to which of the three
holds.  `Extra`, `Inserted` and `Net` are the three ways GProxy++ changes the
number of empty time slots: the bot sends `NumEmpty` of them ahead of each
time slot to players *without* GProxy++, a GProxy++ client puts in as many
itself, and a client that put in some early leaves as many out.

| Action | Code |
|---|---|
| `PlayerLoaded`, `LoadReset`, `GameLoaded` | `EventPlayerLoaded`, `Update` 1144–1253, `EventGameLoaded` |
| `SendUpdate` | `SendAllActions` with the packet split at 1452 bytes |
| `LagStarts`, `LagGoesOn`, `WaitOver` | `Update` 1255–1443: the lag screen goes up; laggers are dropped, the screen is reset, it comes down for those who caught up, all in one pass and in this order |
| `KeepAlive`, `DropRequest` | the packets of the same names |
| `Quit`, `Drop`, `Reap`, `Kick` | leaves, lost connections and marks; all of them end in `EventPlayerDeleted`, which with autosave also sends an update |
| `CutOff`, `Reconnect`, `PutInEmpty` | a GProxy++ connection is lost and comes back; the client's own empty time slot after 60 s |

The handlers of one pass of `Update` that exclude one another (`LagStarts`,
`LagGoesOn`, `SendUpdate`) keep the code's conditions, so no order of the code
is invented or lost: `LagStarts` is enabled exactly when `SendUpdate` is not.

### Broadcast

The abstract specification has a history that only grows (`log`), members who
only get fewer, and for each member what its game has seen, always a
beginning of the history.  `GameLoop` implements it with `seen <- view`
(`OneHistory`): this is the comment of `CBaseGame::Update` at 1193, "we must
make sure every player receives the exact same "desyncable game data"
(updates and player leaves) in the exact same order", as a specification.

### GProxyLink

Both programs count the W3GS packets they get and keep those they sent until
the other end acknowledges them.  At the bot (`CGamePlayer`): `said` are the
packets sent (`m_TotalPacketsSent` of them; of a packet the model knows its
number and whether it is an update), `gbuffer` is `m_GProxyBuffer`, `heard`
the packets received, `loaded` and `gproxy` the two conditions under which
packets are kept.  At the client (`CGProxy`): `shown` are the packets
received, `local` counts those of the game, `pbuffer` is `m_PacketBuffer`,
`synced` is `m_Synchronized`, `ready` the handshake, `gone` the game.

The two ends do not learn of a loss together.  `lines` are the streams towards
the bot, the first that of the bot's socket, the last that of the client's
latest connection, those between and after the first the sockets in
`m_ReconnectSockets`; `down` is the stream to the client and is empty unless
both ends have the same connection (`Attached`).

| Action | Code |
|---|---|
| `Send`, `GameLoaded` | `CGamePlayer::Send` (gameplayer.cpp 775); the game's `m_GameLoaded` |
| `BotReceives` | `ExtractPackets`, `ProcessPackets`: a packet of the game, GPS_INIT and its answer, GPS_ACK, the client's leave |
| `BotAcks`, `ClientAcks` | the acknowledgements every ten seconds |
| `AcceptReconnect`, `RejectReconnect` | the reconnect listener (ghost.cpp 1789–1895) and `EventGProxyReconnect` |
| `Delete` | the player is removed from the game |
| `Local` | `ExtractLocalPackets`, `ProcessLocalPackets` |
| `ClientReceives` | `ExtractRemotePackets`, `ProcessRemotePackets`: a packet for the game, the handshake, GPS_ACK, and the answer to a reconnect request, after which everything the bot lacks is sent again |
| `Lose`, `Connect` | `CGProxy::Update`: a lost connection, a new one and the request on it |
| `GameGoes` | the game leaves or its connection to the client breaks |

### Channels

Two channels, each with the packets sent and the packets that have arrived;
a step sends the next packet or lets the next one arrive.  `GProxyLink`
implements it with the two counters as the packets sent and `shown` and
`heard` as those that have arrived (`Reliable`).  This is what `GameLoop`
takes for granted when `Reconnect` hands a player all that was queued for it.

### Desync

`sums[p]` is `m_CheckSums` of a player; a checksum is a pair of the time slot
it is for and the state it is of, so that the model can tell what the code
cannot: whether two checksums that are compared belong together.  `KeepAlive`
is all of `EventPlayerKeepAlive` (4675–4924): the checksum is queued, and when
everybody has one the fronts are sorted into bins, the players outside the
largest bin are marked, or all of them in a tie, and the fronts are popped.
With `dropIfDesync` off the check only announces, counts marked players too,
and pops.  `Mark` (a leave, a kick, a drop from the lag screen), `Reap` and
`Reload` (the setting changes) come in between; a player who is silent simply
does not act.

### Ending

Every command and timer of `game.cpp` and `game_base.cpp` by which a game can
end is an action: `GiveUp` and `GoOn` (`!ff`, `!noff`), `Rmk`, `VoteKick` and
`Yes`, `Ask`/`End`/`EndNow` (with `bot_endreq2ndteamaccept` somebody of the
other team has to agree), `StopCountdown`, `Override`, `BaseFalls`,
`StartTimer`, `TimerOver`, `CountdownOver` (`StopPlayers`), and at last
`SaveGameData`, `Saved`, `Delete`.  `Leave` is `EventPlayerDeleted` of both
classes: it counts as giving up, resets the votekick and may decide the fast
finish.

### Callables and Hosting

`Callables` has no behaviour of its own: it defines the state of the database
(`idle`, `num`, `out`, and the stage and the connection of each object) and
what `Threaded...` (`Issue`), a thread (`Begin`, `Finish`) and
`RecoverCallable` (`Recover`) make of it.  `Hosting` composes it with those
who issue queries and wait for them: the lobby, the games, the Battle.net
connections, and the bot, to which all of them leave their callables when they
are deleted (`orphans`; `lost` are those that nobody has a pointer to).

A pass of `CGHost::Update` is a cycle through the parts `exit`, `callables`,
`lobby`, `games`, `bnets`, in the order of the code; the threads run at any
point.  `LobbyStarts`, `LobbyCloses`, `AskRehost`, `GameSaves`, `GameEnds`,
`Host`, `Exit` are the operations at this level; `LobbyStartsAndEnds` is the
pass in which a lobby is started and due to be closed at once, after which the
code dereferences a NULL pointer (`crashed`).

### Listing

`out` and `out2` are `m_OutPackets` and `m_OutPackets2` with the packets that
concern the list: STARTADVEX3, STOPADV, ENTERCHAT, chat.  `Create`, `Refresh`,
`RehostPublic`, `RehostPrivate`, `AutoRehost`, `Unhost`, `LobbyEnds` are what
the lobby and the main loop queue, unqueue and change in one go;
`SendFirst`/`SendSecond` send; `Accepted`/`Refused` read the server's answers;
`TryConnect`, `Connected`, `LogsIn`, `NoticesLoss` are `CBNET::Update`.  What
the server does with a packet (`Listings`, `Answered`) is external: a withdrawal
or going back to the chat takes the bot's game off the list, an announcement
puts it there and is answered later.

### Download

A player is named by its client and has a `pid`, as slots do: `Sid` is
`GetSIDFromPID`, the first slot with a player's PID, and `Holders` is
`GetPlayerFromSID`, which passes over players whose leaving the others were
told of (`left`, `m_LeftMessageSent`).  `GetNewPID` passes over them too
(`NewPids`), so a displaced player and the newcomer may share a PID until the
former's object, which is marked (`doomed`, `m_DeleteMe`), is deleted.

`Refuse`, `Wait`, `Begin`, `SendParts` and `Complete` are the five outcomes of
`EventPlayerMapSize`, each with the update of the slot's status at its end;
`Refuse` ends with the deletion, which follows in the same pass.  `SendParts`
sends a part or many ahead of what the client has reported: which of them
depends on rates and on the order of the downloaders, and is left open.  `Join`
gives a newcomer's slot the status "unknown" and may displace the one who has
the least; `JoinBanned` displaces and is then refused, which leaves the slot
with a PID nobody has.  `Leave` opens the slot and deletes the object.  `Kick`,
`KickUnspoofed` and `OpenSlot` open a slot and mark.  `Reap` deletes an object
that was marked earlier; with `LateErrors` its socket may fail in that pass,
which opens the first slot with its PID (`CGamePlayer::Update`, gameplayer.cpp
514 and 543–550).  All but `OpenSlot` name the slot by the PID of a player
(`Opens`).  When that PID has been given to another player, who loses the slot,
the history variable `ousted` remembers it.  `Swap` moves slots.  A deletion stops a countdown (`Aborts`), unless the others were told
before or `NormalCountdown` is set.  `AllowDownload` and `SetDownloads` are the
commands; `StartCountDown` looks at the slots, `CountdownOver` starts.  The
client (`ClientStarts`, `ClientTakes`) is external, as the bot's code takes it
to be.

## 3. The runs

Passing:

| Run | Properties | What it shows |
|---|---|---|
| `lobby_core` | `TypeOK`, `HostHasRoom`, `SeatsAccounted`, `MembersSeated`, `DisplacementRule` | A full lobby of two slots with an owner, an admin, a held and a plain player, kicks, slot commands and the fake player: slots show players who are there, players have slots, the virtual host makes room in time, and nobody is displaced by somebody who may not. |
| `lobby_order` | `OwnerComesFirst` | Three slots and every way slots move (rotation for the owner, held seats, swaps, balancing): the owner who joins gets the first human slot, and no two others change places. |
| `lobby_full` | `PidsDistinct`, `NamesDistinct`, `RosterFrozen` | Identities stay distinct and the roster stands while the countdown runs, with late score answers, bans, late socket errors, unspoofed players, ladder scores and the countdown. |
| `loop_core` | `TypeOK`, `SameData`, `ScreenShows`, `OneHistory` | Three players, one with GProxy++, load-in-game, split updates, a reset of the lag screen, lost connections and leavers: everybody is on the replay's history. |
| `loop_outage` | `KeepsPace`, `NobodyLeftBehind`, `UpdatesOffScreen`, `LagEnds` | A GProxy++ player may be cut off for minutes: the number of empty time slots still adds up, no update is sent under a lag screen, and a lag screen ends. |
| `link_core` | `TypeOK`, `NothingForgotten`, `Reliable`, `EverythingArrives` | Three packets each way and two lost connections, with acknowledgements, requests and answers that are late or lost: the link is a pair of reliable channels, and what is sent arrives unless the player leaves. |
| `desync_core` | `TypeOK`, `FairVerdict`, `DesyncNoticed` | Three players who may desync, stall, leave and be dropped while the setting changes: only smaller sides are dropped, and no desync is overlooked for ever. |
| `end_core` | `VotesAreOpen`, `LoserGaveUp`, `LonelyGameCloses` | Three players of two teams with every vote, command and timer: votes are about and of players who are there, no team loses against its players, a deserted game is closed. |
| `hosting` | `TypeOK`, `ConnectionsUsedOnce`, `PoolCounted`, `OneOwner`, `ThreadsKeepTheirs`, `ExitsInTheEnd`, `AllComeBack` | Lobbies and games come, are rehosted, saved and deleted while database threads run and fail to start: every callable has one owner until it is taken back, no connection has two users, and a nice exit ends. |
| `listing` | `TypeOK`, `OnlyLobbyListed`, `PrivateAdvertisedThere`, `ListedInTheEnd` | Two queues drain while a lobby is created, renamed, refused, started and closed and the connection is lost: what the server lists in the end. |
| `download` | `StartsComplete`, `DownloadsEnd` | Two players who are given one PID in turn, a slot and a computer's, which are swapped, opened and left behind, a map of two parts, changing settings, late socket errors and kicks for a missing spoof check: a game that was not forced starts with players who have the map, but for those whose slot was opened for another's sake, and a download ends. |

`lobby_ghost` is a run in which a comment of the code is refuted (section 6).

For every property of a passing run `PROJECT.json` has a mutant: a definition
with a plausible mistake (the `_Slip` definitions in the modules) under which
TLC finds the property violated.

## 4. Bounds and fairness

*Lobby.*  Three objects suffice for every interaction the code has: one who
is displaced or kicked, one who takes the place, and a third who must not
notice.  Two slots make the lobby full with two players; three slots are used
where slots move, so that there is a slot between two others.  Names: one for
each privilege (owner, admin, held or safelisted, none).  `Commands` bounds
the commands a run uses, `CountFrom` the countdown (5 or 10 in the code).  The
PIDs are the code's own 1–254.

*GameLoop.*  Two or three players, one with GProxy++; `NumEmpty` 1 or 2 (the
code's values are 3, 6, 9, or 0 to 9; 2 is the least with which a client can
have put in some but not all); `SyncLimit` 2 is the least with which a lagger
can be back below half of the limit; `MaxUpdates` 3 or 4 updates are enough to
exceed the limit, catch up and go on; `MaxResets` 1; one `Large` update.
`NumEmpty` greater than the bound, more players and more updates are covered
by the proofs.

*GProxyLink.*  `MaxSaid` 3, `MaxLocal` 3: the first packet of each side is
spoken for (the join), one is lost with a connection and one is sent while the
ends are out of step.  `MaxLosses` 2: a client then has up to three
connections at once, so that the bot answers a request on one which the client
has given up already.  Reconnect notices of the bot do not count.

*Desync.*  Three players: two against one, one against one, and three ways.
Two states suffice for every vote of three; three-way ties are in the proof.
`Window` 2 lets a fast player be a checksum ahead of the others, `Cycle` 2
tells the time slots of such queues apart.

*Ending.*  Three players, two against one: a team that is alone and one that
needs both to give up; an admin in each team; one who may not be voted on.
`MaxCommands` 4 is enough to ask, answer, stop and start again.

*Hosting.*  Two callables at a time, three connections of which one may stay
idle (`MaxConnections` 0: the code keeps one more than the maximum), one game
besides the lobby.  `NumBound` bounds how often a thread fails to start (the
code's counter of connections goes up each time), `Spare` leaves a callable
for the saving of a game, as memory would.  `AutoHostGames` 1.

*Listing.*  Two names, so that a lobby can be renamed and renamed back;
`ChatLimit` 3 (11 in the code); `QueueBound`, `AnswerBound` 2 bound what users
do while packets and answers are on their way; one lost connection.

*Download.*  A reserved player who may always download and one who is neither,
with one slot for them and a computer's, so that the one displaces the other,
and one PID, which is given again at once: with more PIDs a newcomer may also
get another, and the two players then have nothing to do with each other's
slot.  The slots are swapped, opened and left behind with the PID of one who was
displaced, which the next to come is given.  A map of two parts of which one is
sent ahead: who lacks the map has nothing or a part of it, and the window closes
and moves.  `LateErrors` and `UnspoofedKick` are set, the harder case;
`NormalCountdown` is not, since with it fewer steps stop a countdown.  The
theorems are about any number of players, slots, PIDs and parts, and about every
setting of the three.

*Fairness of GameLoop* (`FairSpec`, used for `LagEnds` only): the bot keeps going through
its loop, so a marked player is deleted (`Reap`) and an open lag screen is
looked at (`LagGoesOn`), and clocks go on (`WaitOver`: `WaitTime` seconds
pass).  Nothing is assumed of the clients: they may never send a keepalive,
never vote and never reconnect.

*Fairness of GProxyLink* (`FairSpec`, used for `EverythingArrives`): both
programs poll their sockets in every pass (`BotReceives`, `AcceptReconnect`,
`ClientReceives`), and a protected client that has lost its connection tries
again until it has one (`Connect`).  Losses are finitely many by their bound:
against a network that fails for ever nothing can be promised.  Nobody is
obliged to send, to acknowledge, or to stay.  `Lobby` states no fairness and no liveness: a
lobby waits for people, for as long as they like.

*Fairness of Desync* (`DesyncNoticed`): a player's game sends its checksums, or
the player is dropped from the lag screen, as `GameLoop` shows; a marked player
is deleted.

*Fairness of Ending* (`LonelyGameCloses`): the main loop and its clock go on,
and the database answers.  Players may type for ever; they are bounded by
`MaxCommands`, since every `!noff` and the like may stop the timer anew.

*Fairness of Hosting* (`ExitsInTheEnd`, `AllComeBack`): the loop goes on, the
threads are run, and in a game that is there again and again the players leave
some day (strong fairness, since a game is looked at in one part of the pass).

*Fairness of Listing* (`ListedInTheEnd`): the queues are sent, answers are read,
the connection is tried again; `Refresh` is strongly fair, as its timer runs
out again and again, and the property has the premise that the queue is short
now and then: the code queues a refresh only then.

*Fairness of Download* (`DownloadsEnd`): the bot's loop looks at every player,
and reads its report or deletes its object; a client that downloads answers.
An admin's help is not assumed.

Deadlock is checked in `hosting` and `listing`, which never stop (a bot that
has exited stutters by an action of its own).  It is not checked elsewhere: a
lobby ends when the map loads, and a game with all players gone or at its
bounds has no next step.

## 5. What is proved

TLAPS checks these for every value of the constants that the modules' named
assumptions allow: any number of slots, connections, names, players, updates,
empty slots, limits.

| Theorem | Says | Assumes |
|---|---|---|
| `LobbyProofs!TypeCorrect` | `TypeOK` | |
| `LobbyProofs!PidsAreDistinct` | `PidsDistinct` | |
| `LobbyProofs!NamesAreDistinct` | `NamesDistinct` | |
| `LobbyProofs!SlotsShowPlayers`, `PlayersHaveSlots` | `SeatsAccounted`, `MembersSeated` | `Undisturbed` |
| `LobbyProofs!RosterStaysFrozen` | `RosterFrozen` | |
| `LobbyProofs!HeldStayReserved` | `HeldAreReserved` | |
| `LobbyProofs!VirtualHostHasRoom` | `HostHasRoom` | |
| `LobbyProofs!DisplacementIsFair` | `DisplacementRule` | `NoAdminUnheld` |
| `LobbyProofs!OwnerIsFirst` | `OwnerComesFirst` | |
| `GameLoopProofs!TypeCorrect` | `TypeOK` | |
| `GameLoopProofs!EverybodyGetsTheSame` | `SameData` | `~LongOutages` |
| `GameLoopProofs!LoopImplementsBroadcast` | `OneHistory`: `GameLoop` implements `Broadcast` | `~LongOutages` |
| `GameLoopProofs!ScreensAreRight` | `ScreenShows` | |
| `GameLoopProofs!NobodyFallsBehind` | `NobodyLeftBehind` | `~AutoSave` |
| `GameLoopProofs!GameStandsStill` | `UpdatesOffScreen` | `~AutoSave` |
| `GameLoopProofs!EverybodyKeepsPace` | `KeepsPace` | |
| `GProxyLinkProofs!TypeCorrect` | `TypeOK` | |
| `GProxyLinkProofs!LinkForgetsNothing` | `NothingForgotten` | `~LoadInGame` |
| `GProxyLinkProofs!HandshakeComesFirst` | `HandshakeFirst` | `~LoadInGame` |
| `GProxyLinkProofs!LinkIsReliable` | `Reliable`: `GProxyLink` implements `Channels` | `~LoadInGame` |
| `DesyncProofs!TypeCorrect` | `TypeOK` | |
| `DesyncProofs!QueuesInStep` | `SameSlot` | |
| `DesyncProofs!VerdictIsFair` | `FairVerdict` | |
| `EndingProofs!VotesStayOpen` | `VotesAreOpen` | |
| `EndingProofs!LoserHasGivenUp` | `LoserGaveUp` | |
| `HostingProofs!TypeCorrect` | `TypeOK` | |
| `HostingProofs!OneUserPerConnection` | `ConnectionsUsedOnce` | |
| `HostingProofs!CountsAreRight` | `PoolCounted` | |
| `HostingProofs!ThreadsAreSafe` | `ThreadsKeepTheirs` | |
| `HostingProofs!OneOwnerEach` | `OneOwner` | |
| `ListingProofs!TypeCorrect` | `TypeOK` | |
| `ListingProofs!OnlyTheLobbyIsListed` | `OnlyLobbyListed` | |
| `ListingProofs!PrivateGamesAreListed` | `PrivateAdvertisedThere` | |
| `DownloadProofs!GamesStartComplete` | `StartsComplete` | |
| `DownloadProofs!NobodyIsOverlooked` | `EverybodyHasTheMap` | `~LateErrors`, `~UnspoofedKick` |

*Lobby.*  `LobbyProofs` first shows what the pure operators do: `NewPid` is
unused (`NewPidIsFresh`), and each of the moves of slots (`Exchange`,
`Rotate`, `PlaceOwner`, `PlaceAdmin`, `PlaceHeld`, `Permuted`) only rearranges
the table (`Moved` is reflexive and transitive).  `PidsDistinct` and
`NamesDistinct` are inductive with `TypeOK`: every step either brings one new
object (`Arrival`) with a fresh PID and a new name, or nobody new.
`SeatsAccounted` and `MembersSeated` are not inductive: the strengthening is
`SeatInv`, which says that the PIDs on the slots are exactly those of the
players who are not marked, each on one slot, and the fake player's.  It is
preserved only under `Undisturbed` (nobody privileged is banned, no late
socket errors, no kick for spoof checks and no ladder scores): without any one
of these conditions the code does break it (section 6; `lobby_ghost` is a run
that does).  `HostHasRoom` rests on `Headcounts`: a step that brings nobody new
never raises the number of players, and each step that brings a player or the
fake player first removes the virtual host when the table is one short of full.  `DisplacementIsFair` needs that admins and the owner stay
reserved (`AdminsStayReserved`), and therefore `NoAdminUnheld`, that the hold
commands are not used on them: TLC refutes the rule otherwise, because
`!unhold` of a name that was not held takes the reservation from its player
(`DelFromReserved`), who is then displaced like anybody else.
`OwnerIsFirst` needs no other invariant than distinct PIDs, but a fact about
the rotation: `Advanced` says that the slot found for the owner is moved to
the front and that each slot between moves to the next one that is not a
computer's, no further than the slot that was next (`RotateAdvances`).  So two
players who stay keep their order (`OrderKept`), and the exchanges for admins
and held players, which come after it, do not apply to an owner (`OwnerPlaced`).

*GameLoop.*  `Types` adds to `TypeOK` that nobody is behind by more updates
than there were.  `InStep` is the invariant behind the history: each player's
view, followed by what is queued for it or buffered for it, is the log,
nobody has both, and no client has an empty slot of its own to leave out.
It gives `SameData` at once, and the step of the refinement from the fact
that each step appends to the log and moves the views along it.  The lag
theorems have `ScreenShows` as their invariant: an update is sent only when
the bot waits for nobody, and the screens show whom the bot waits for.
`~AutoSave` is needed: TLC refutes `UpdatesOffScreen` without it (section 6).
So is `~LongOutages`: a client that is cut off for a minute puts in an empty
update of its own, possibly before a leave that the others see before theirs.
What holds then is `KeepsPace`, for outages of any length.  Its invariant is
`Pace`: what the player's game has gone through is ahead, by exactly the empty
slots the client has put in, of the log without what is still kept for the
player (`Paced`); and a client with GProxy++ has its next time slots at the
bot as the bot announced them, `NumEmpty` empty ones before the first update
(`Ready`), so that it can leave out as many as it has put in (`NetPays`).  Both
halves compare what is kept of a sequence, its time slots or all but its empty
ones (`Only`, a recursive function): that this distributes over concatenation
(`OnlyConcat`) is proved from the function's defining equation, which holds up
to the least index at which it could fail (`OnlyIs`).

*GProxyLink.*  The invariant is `LinkInv`.  `InOrder` says of a stream that
the packets in it follow what the receiver has, one by one; `Complete`, that
they go up to the last one sent.  The stream of the client's own connection is
complete towards the client, and towards the bot once the answer to the
request has come; before that it carries no packets (`UpStreams`).  The bot's
old socket may hold a beginning of what is missing.  Each buffer keeps the
last packets sent, from one the other end has got, or, at the bot, from before
the first update (`Buffers`): a client without an update does not come back
(`Protected`, `Returning`).  `Handshake` orders the handshake before the
game's packets.  The lemmas `ReadData`, `WriteData`, `WriteKept` and
`UnqueueKeeps` say what reading, writing, resending and unqueueing do to
streams and buffers; then every action preserves the invariant, and each step
is one of `Channels` or a stutter.  `~LoadInGame` is needed: see section 6.

*Desync.*  `SameSlot` is inductive with `TypeOK`: a check pops the front of
everybody who stays, so equal positions keep belonging to the same time slot
(`AppendInStep`, `PopInStep`).  `FairVerdict` speaks of sides, that is of
players with the same front; `SameBin` and `BinSize` show that the code's bins
are these sides, and `VerdictOnBins` that those who are marked have a side
that is not larger.  Without `SameSlot` the verdict would be fair to the letter
and compare different moments.

*Ending.*  `VotesAreOpen` is inductive with the types: each step that takes a
player away also counts the votes again.  `LoserGaveUp` needs `Asked`: while a
request for the end, or the winner named with one that expired (section 6), is
kept, so is the team that asked, and only the other team can agree to it.

*Hosting.*  The invariant is `IInv`: the shape of the bot's state and `Sound`,
which says of the database that each connection has one user, that what is out
is counted, and that idle and used connections are never more than the count,
so that `GetIdleConnection` never closes a connection it should not
(`NothingClosed`).  Each call of `Callables` preserves `Sound`
(`IssueIsSound`, `BeginIsSound`, `FinishIsSound`, `RecoverIsSound`); each part
of a pass is made of such calls and never frees an object whose thread runs
(`Spares`).  `OneOwner` needs more than its statement: `Owned` says that the
places where a callable may wait (the lobby, each game's checks and its save,
the orphans, the lists, what runs alongside, what was forgotten) are pairwise
disjoint and together are what is out; each part of a pass moves callables
between two places or issues and recovers them in one.

*Listing.*  What the list will show depends on all that is still in the queue.
`Leads` says that the name in the list, and each name in a packet on its way,
is the lobby's or is withdrawn by a later packet of the queue; it holds of any
queue when its front is sent (`LeadsTail`), when packets are added
(`LeadsConcat`), and when it is searched for refreshes ahead of a withdrawal
(`Withdrawn`); of an empty queue it is `OnlyLobbyListed`.  `Promised` is the converse for a private lobby: its name
is in the list or coming and not withdrawn after that, or a refusal is on its
way back.  Both are about Battle.net, where all these packets go through one
queue; with the two queues of PvPGN TLC refutes them (section 6).

*Download.*  `StartsComplete` is about one moment; its invariant follows the
truth about the map from the client to the start.  No report on its way promises
more than the client has (`ReportsHonest`).  Every player who was neither thrown
out nor ousted has its PID on some slot, and that slot does not show 100% unless
the player has the map (`Accounted`): the start, which walks the slots, misses
none of them.  A step about one player leaves the slots of the others alone,
because no two players whom the others know of have one PID (`PidsDistinct`),
unless it is about one who has left, and then it ousts whoever has its PID; and
who sits on a slot that is given away or opened is marked in the same step.
During the countdown nobody comes and what a player has only grows, so the
checks stay true (`CountdownComplete`).  Nothing is needed of the slots that were
left behind.  `NobodyIsOverlooked` shows that the exception is void when sockets
do not fail late and nobody is kicked for a missing spoof check: `ousted` is then
empty in every state.  Both assumptions are needed: with either of the two
switches TLC refutes `EverybodyHasTheMap` (section 6).

*Only model-checked*: the liveness properties (`LagEnds`, `EverythingArrives`,
`DesyncNoticed`, `LonelyGameCloses`, `ExitsInTheEnd`, `AllComeBack`,
`ListedInTheEnd`, `DownloadsEnd`), since liveness under fairness and ENABLED are
out of this prover's reach.  The library's induction theorems are too: the
modules that are proved about use set and function definitions (`Min`, `Max`,
comprehension) where they can, and what has to be known of the loops that
remain (`Unqueued`, `Only`) is proved of the least index at which it would fail
(`Least`), from the well-foundedness of the natural numbers.

## 6. Where the code and its comments disagree

* `lobby_ghost`: a reserved joiner throws a player out of a full game *before*
  its own ban is looked up.  The slot is not opened "because we're about to
  overwrite the slot data anyway" (game_base.cpp 3144), but the joiner is then
  refused, and the slot stays occupied by a PID nobody has.

Noted while modelling, and reproducible in the models as described; the project
keeps no run of them:

* *Lobby.*  `GetNewPID` ("find an unused PID for a new player to use", 6120)
  may return the PID of the displaced player whose object is still waiting to
  be deleted; a late error of that object's socket opens the slot of that PID,
  which is now the newcomer's (`MembersSeated` of `lobby_core` with
  `LateErrors = TRUE`; below is what follows for the download).
* `SwapSlots` keeps the cached index up to date, the owner's rotation and
  `BalanceSlots` do not; a player's own `!swap` can then move somebody else.
* With score checks, the first pass of a join ends before the ban checks and
  the second skips them; a banned player gets in.
* *Running game.*  With autosave the deletion of a disconnected player sends an
  update, also while the lag screen shows players who stay, although "we want
  the game to stop running while the lag screen is up" (1436)
  (`UpdatesOffScreen` of `loop_outage` with `AutoSave = TRUE`).
* *GProxy++.*  Packets are kept from the moment *all* have loaded, for "we can
  avoid buffering packets until we know the client is using GProxy++ since
  that'll be determined before the game starts" (gameplayer.cpp 780).  With
  load-in-game a player who has loaded gets updates before that moment, and a
  client reconnects from its first update on; the packets it lost are gone
  (`Reliable` of `link_core` with `LoadInGame = TRUE`).
* *Ending.*  A team that has surrendered may still become the winner: those who
  drop count as giving up, and when the last of the other team goes the winner
  is recorded anew (game.cpp 865, 6636).  A request for the end with a winner
  and no reason never expires, and `!end w` then records a stale winner (game.cpp
  3439, game_base.cpp 1466).  A leaver, or a player who gives up without
  deciding anything, stops the countdown that somebody else started and clears
  the game over timer (game.cpp 6651).  `SetWinner` is called on `m_Stats`
  without a check that there are statistics (6636).
* *Callables.*  "be careful not to leak any callables" (ghostdb.h 220):
  bnet.cpp 750–758 overwrites pointers to the safe and access lists that are
  still on the way, and `~CBNET` (225–233) forgets the safe vouchers, the notes
  and the count of today's games; they are the `lost` of `Hosting`.
  A callable whose thread could not be started leaves NULL in the queue of
  idle connections (ghostdbmysql.cpp 137–150), and a handle whose
  `mysql_real_connect` failed goes there too (2098–2106).
* *Hosting.*  `!rehost` and a start within three seconds: the started game is
  deleted unsaved when the time is up (game_base.cpp 1805), and the wish to
  host again stays and comes true after some later lobby; so it does when
  `CreateGame` refuses (ghost.cpp 1658–1680).  When the time is up in the very
  pass that starts the game, `m_CurrentGame` is NULL and dereferenced
  (ghost.cpp 1632, `crashed` in the model).
* *Listing.*  On a PvPGN server announcements go through `m_OutPackets2` and
  withdrawals through `m_OutPackets`: `!priv` announces the new name at once,
  and the withdrawal of the old game, seconds later, takes the new one off the
  list, although "we need to send the game creation message now because
  private games are not refreshed" (game.cpp 5043): `PrivateAdvertised` as an
  invariant of `listing`.  `m_OutPackets2` is not cleared when the bot
  connects again (bnet.cpp 1017) and not searched by `UnqueueGameRefreshes`.
  A late refusal of the old name sets `m_RefreshError` of the renamed lobby,
  or closes it, although "the only downside is a potential false positive"
  (game.cpp 5036).
* *Download.*  "This typically won't happen because we prevent the !start
  command from completing while someone is downloading the map" (game_base.cpp
  5710).  A reserved player displaces another and is given its PID, which is
  free because the others were told that its player left (3147, 6131).  Before
  the displaced player's object is deleted its socket fails, which opens the
  slot of the PID (gameplayer.cpp 543–550, game_base.cpp 2720), and that is the
  newcomer's.  The start looks at the slots (7717–7731), does not see the
  newcomer, whose ping is not asked for either as it is reserved (7767), and
  completes while the newcomer is downloading.  A kick for a missing spoof check
  (984–998), which goes over the objects of players who have left too, does the
  same.  It is why `StartsComplete` excepts the `ousted`: `EverybodyHasTheMap` as
  an invariant of `download` is refuted.
* *Download.*  When an admin makes downloads conditional (`!downloads 2`,
  game_admin.cpp 812) while somebody downloads, the answers are ignored, and
  `!download` refuses because the download has started (game.cpp 3172): the
  player stays at its percentage, and the game needs a forced start.
  `m_LastMapPartAcked` is never set since the sending loop of `Update`
  (908–964) was commented out.

## 7. What the models leave out

*Lobby.*  A client sends one packet per visit of the loop, and the order in
which the loop visits the players is arbitrary.  Download progress is
abstracted (any displaceable player may be the one with the least), as are
teams, colours, observers and who is allowed to give a command.  Whether
another player consented to a public swap is arbitrary.  Joins that are
rejected without a change of state are stutters.  The matchmaking join
(`EventPlayerJoinedWithScore`), Garena-only and country checks, savegame and
Waaagh!TV slots and `m_PlaceAdminsHigherOnlyInDota` are not modelled.  When a
score arrives, all pending joins of the name get their second pass, of which
only the first can be admitted, so `pending` is a set of names.

*GameLoop.*  The contents of actions, chat, the game-over and no-player
timers, desync checks, and W3GS_GAMELOADED_OTHERS messages.  A connection that
stands delivers at once.  Clocks are not modelled: what waits for one may
happen at any time.  Replays are taken to be on, and the GProxy++ handshake to
be over before the map loads.  Computer slots get no keepalives.

*GProxyLink.*  A packet is its number: the bot's packet 1 is
W3GS_SLOTINFOJOIN, the game's packet 1 the join request, and `LoadedPacket` is
its W3GS_GAMELOADED_SELF.  At most one acknowledgement of the same count is on
its way, and a rejection and its receipt are one step.  Reconnect sockets are
served in the order in which they came; the choice of the player by PID and key
and the ten seconds after which a silent socket is closed are left out, so a
request of this client is answered sooner or later.  Both streams of a
connection are cut between packets: what the code reads of half a packet is
thrown away with the connection.  The empty actions of the client are in
`GameLoop`.

*Desync.*  A queue is bounded by `Window`; a player who leaves may leave at any
time.  Which players are named in the chat is left out.

*Ending.*  A map of two teams, no root admins, and the limits
`m_gameovermaxteamdifference` and `m_gameoverminpercent` off; times are
abstract (a timer may run out any time), `bot_minffTime` is 0.

*Hosting.*  What a lobby or a game does inside is in the modules above.  One
check of each lobby or game is on its way at a time; a pass that asks for lists
does not autohost; the server of a game's creator is connected; autohosting is
not switched off by a bad name or map.  `!unhost` and the time limit of a lobby
are one action (`LobbyCloses`).  The UDP thread, which shares its queues with
the main loop without a lock (ghost.cpp 281, 1154), is left out.

*Listing.*  One server, which is that of the game's creator.  A slot is always
open, so refreshes are not held back; a message is one or two packets; the
other packets of the login, `UnqueueChatCommand`, `m_InChat`, BNLS and Warden
are left out.

*Download.*  A part is the unit.  The download-only mode, closed slots, the
placement of an owner, the slots an owner or admin may take from reserved
players and the kick for a low score are left out (`Lobby` has all of these but
the first), and so is which of the free PIDs is given.  A client reads and answers one message at a time.  Pings are not
modelled: the start's check of them can only refuse it.

*Not modelled at all.*  Statistics (counting from packets, no interaction),
the admin game, the codecs of the protocols, sockets (I/O), brtServer (a
separate relay for chat), configuration and language files, ladder updaters
(batch programs), vendored libraries.  Of the lines of `src/`, more than a third
are sqlite3.c and sqlite3.h, and most of the others are StormLib, zlib,
bncsutil, the MySQL headers, code that formats SQL and chat, and parsers of
commands without a state of their own: the share of lines that a model of
behaviour can stand for is small, and these modules cover what has it.

## 8. Plan

Done: `Lobby`, `GameLoop`, `GProxyLink` with `Channels`, `Desync`, `Ending`,
`Callables` with `Hosting`, `Listing`, `Download`, and the proofs of section 5.
What would come next, the most important first:

1. In `Lobby`: the matchmaking join (`EventPlayerJoinedWithScore`),
   `m_NormalCountdown` as a variable, start votes, the expiry of `!swap`
   requests.
2. `Listing` over two servers, of which one is not the creator's, and its
   composition with `Hosting`.
3. The exchange of the reconnect listener with several GProxy++ players.
4. The theorems with an assumption, from weaker ones: what the slots show in a
   lobby with bans (`Undisturbed`), and the link with load-in-game
   (`~LoadInGame`) up to the reconnects that section 6 describes.

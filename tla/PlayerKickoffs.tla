--------------------------- MODULE PlayerKickoffs ---------------------------
(***************************************************************************)
(* _player_kickoffs (espn_adapter.py): what of the schedules ESPN lists    *)
(* with the players of the rosters counts as a known kickoff.              *)
(*                                                                         *)
(* A listing is a roster entry: a player and the dates of the current      *)
(* week in its schedule, Doubtful for an entry that is a bye or has no     *)
(* usable date, or NoWeek when the schedule does not mention the week.     *)
(***************************************************************************)
EXTENDS Integers, FiniteSets, Sequences

CONSTANTS Doubtful, NoWeek

ASSUME KickoffAssumption == Doubtful \notin Int /\ NoWeek \notin Int

Listing(players, dates) == [player : players, dates : {NoWeek} \cup SUBSET (dates \cup {Doubtful})]

ListingsOf(listings, player) ==
  {listings[i].dates : i \in {j \in DOMAIN listings : listings[j].player = player}} \ {NoWeek}

\* by_player and invalid_players.
DatesOf(listings, player) == (UNION ListingsOf(listings, player)) \ {Doubtful}

Invalid(listings, player) ==
  \E dates \in ListingsOf(listings, player) : dates = {} \/ Doubtful \in dates

\* Mutation: a doubtful entry is skipped, the others count.
Known_SkipDoubtful(listings, player) == Cardinality(DatesOf(listings, player)) = 1

Known(listings, player) ==
  ~Invalid(listings, player) /\ Cardinality(DatesOf(listings, player)) = 1

\* The player_kickoffs of the snapshot, per player.
Kickoffs(listings, players) ==
  [p \in players |->
     IF Known(listings, p) THEN <<CHOOSE t \in DatesOf(listings, p) : TRUE>> ELSE <<>>]
=============================================================================

----------------------------- MODULE StudyRooms -----------------------------
(***************************************************************************)
(* A study room of the chat (study-room.service.ts, its repository and       *)
(* migration 001): requests read the room, count and look up, decide in the  *)
(* server, and write; the database only keeps a member from being inserted   *)
(* twice and drops the members with their room. Messages are left out.       *)
(***************************************************************************)
EXTENDS Integers, FiniteSets

CONSTANTS Guests,        \* public keys
          Limits,        \* values of maxParticipants other than null
          RoomCalls,     \* requests being served at once
          MaxMiscounts   \* bound on the counts that fail

ASSUME RoomAssumption ==
    /\ Limits \subseteq Nat \ {0} /\ Limits # {} /\ MaxMiscounts \in Nat
    /\ IsFiniteSet(RoomCalls)

VARIABLES room,      \* the row of study_rooms: status and max_participants
          members,   \* study_room_members
          roomCalls, \* what each request has read
          highest,   \* history: the highest maxParticipants so far, Unlimited once it was null
          miscounts  \* history: counts that failed

roomVars == <<room, members, roomCalls, highest, miscounts>>

RoomServed == [step |-> "served"]
NoRoom == [status |-> "none", limit |-> 0]
Unlimited == -1  \* maxParticipants null
MaxParticipants == Limits \cup {Unlimited}

RoomTypeOK ==
    /\ room \in [status : {"active", "archived"}, limit : MaxParticipants] \cup {NoRoom}
    /\ members \subseteq Guests
    /\ DOMAIN roomCalls = RoomCalls
    /\ highest \in MaxParticipants \cup {0} /\ miscounts \in 0..MaxMiscounts

RoomInit ==
    /\ room = NoRoom
    /\ members = {}
    /\ roomCalls = [c \in RoomCalls |-> RoomServed]
    /\ highest = 0 /\ miscounts = 0

At(c, step) == roomCalls[c].step = step

Then(c, to) == roomCalls' = [roomCalls EXCEPT ![c] = to]

OnlyCall == UNCHANGED <<room, members, highest, miscounts>>

Exists == room.status # "none"

Higher(limit) == IF Unlimited \in {limit, highest} THEN Unlimited
                 ELSE IF limit > highest THEN limit ELSE highest

-----------------------------------------------------------------------------
(* createRoom inserts the room and then its creator; when the second insert   *)
(* fails the room is there without the creator.                               *)
createRoom(c, guest, limit) ==
    /\ At(c, "served") /\ ~Exists /\ highest = 0
    /\ room' = [status |-> "active", limit |-> limit]
    /\ highest' = limit
    /\ Then(c, [step |-> "add", guest |-> guest])
    /\ UNCHANGED <<members, miscounts>>

(* The unique key refuses a member that is there, the foreign key one of a    *)
(* room that is gone.                                                         *)
addMember(c) ==
    /\ At(c, "add")
    /\ members' = IF Exists THEN members \cup {roomCalls[c].guest} ELSE members
    /\ Then(c, RoomServed)
    /\ UNCHANGED <<room, highest, miscounts>>

addFails(c) ==
    /\ At(c, "add")
    /\ Then(c, RoomServed)
    /\ OnlyCall

-----------------------------------------------------------------------------
(* joinRoom: the room, the count of its members, the caller's own membership. *)
findRoomById(c, guest) ==
    /\ At(c, "served") /\ Exists
    /\ Then(c, [step |-> "count", guest |-> guest, room |-> room])
    /\ OnlyCall

countMembers(c) ==
    /\ At(c, "count")
    /\ Then(c, [step |-> "look", guest |-> roomCalls[c].guest, room |-> roomCalls[c].room,
                count |-> Cardinality(members)])
    /\ OnlyCall

(* An error is logged and counts as an empty room.                            *)
countFails(c) ==
    /\ At(c, "count") /\ miscounts < MaxMiscounts
    /\ miscounts' = miscounts + 1
    /\ Then(c, [step |-> "look", guest |-> roomCalls[c].guest, room |-> roomCalls[c].room,
                count |-> 0])
    /\ UNCHANGED <<room, members, highest>>

(* Mutant: the last place is counted from one. *)
FitsOneMore(read) == read.room.limit = Unlimited \/ read.count <= read.room.limit

Fits(read) == read.room.limit = Unlimited \/ read.count < read.room.limit

findMember(c) ==
    /\ At(c, "look")
    /\ LET read == roomCalls[c]
       IN  Then(c, IF read.room.status = "active" /\ read.guest \notin members /\ Fits(read)
                   THEN [step |-> "add", guest |-> read.guest] ELSE RoomServed)
    /\ OnlyCall

(* leaveRoom looks the member up and then deletes it.                         *)
lookMember(c, guest) ==
    /\ At(c, "served") /\ guest \in members
    /\ Then(c, [step |-> "leave", guest |-> guest])
    /\ OnlyCall

removeMember(c) ==
    /\ At(c, "leave")
    /\ members' = members \ {roomCalls[c].guest}
    /\ Then(c, RoomServed)
    /\ UNCHANGED <<room, highest, miscounts>>

-----------------------------------------------------------------------------
(* The creator's requests end in one statement on the row.                    *)
updateRoom(status, limit) ==
    /\ Exists
    /\ room' = [status |-> status, limit |-> limit]
    /\ highest' = Higher(limit)
    /\ UNCHANGED <<members, roomCalls, miscounts>>

deleteRoom ==
    /\ Exists
    /\ room' = NoRoom
    /\ members' = {}
    /\ UNCHANGED <<roomCalls, highest, miscounts>>

RoomNext ==
    \/ \E c \in RoomCalls :
          \/ \E guest \in Guests :
                \/ \E limit \in MaxParticipants : createRoom(c, guest, limit)
                \/ findRoomById(c, guest)
                \/ lookMember(c, guest)
          \/ addMember(c) \/ addFails(c)
          \/ countMembers(c) \/ countFails(c) \/ findMember(c)
          \/ removeMember(c)
    \/ \E status \in {"active", "archived"}, limit \in MaxParticipants : updateRoom(status, limit)
    \/ deleteRoom

RoomSpec == RoomInit /\ [][RoomNext]_roomVars

-----------------------------------------------------------------------------
(* "Maximum number of participants allowed" (study-room.dto.ts:56): joins     *)
(* that overlap may overfill a room, but by no more than there are joins at   *)
(* once, less the one that fits, and by as many as were let in on a count     *)
(* that failed; no sequence of joins and leaves adds up to more. A room that  *)
(* was ever without a limit is the exception.                                 *)
OverfullByRacesOnly ==
    Exists /\ highest # Unlimited =>
        Cardinality(members) <= highest + (Cardinality(RoomCalls) - 1) + miscounts
=============================================================================

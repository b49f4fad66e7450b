----------------------------- MODULE MobileSync -----------------------------
(***************************************************************************)
(* Payment notifications of the mobile app (services/background-sync.ts and  *)
(* components/notifications/NotificationContext.tsx). One snapshot in        *)
(* AsyncStorage is read before, and written after, a request to the server,  *)
(* by syncs that overlap; marking as read and the payment listener replace   *)
(* its list by the one on show. A list is a function from the payments on it *)
(* to whether they are read; the 50 newest and the dates are left out.       *)
(***************************************************************************)
EXTENDS FiniteSets, KeyValue

CONSTANTS Payments,  \* payments of the connected account
          Shows,     \* syncs of the app in the foreground, at once
          Silents,   \* syncs of the background task, at once
          Updates    \* calls of updateStoredSyncSnapshot at once

VARIABLES arrived,   \* payments the server knows
          stored,    \* the stored snapshot: its list and initialSyncCompleted
          shown,     \* the list on show
          syncs,     \* what each sync has read
          updates,   \* what each update will store
          toldRead,  \* history: payments on show when the user marked all as read
          baseline   \* history: payments fetched for a snapshot without a first sync

mobileVars == <<arrived, stored, shown, syncs, updates, toldRead, baseline>>

Syncs  == Shows \cup Silents
NoList == << >>
Lists == UNION {[set -> BOOLEAN] : set \in SUBSET Payments}
Snapshot == [list : Lists, initial : BOOLEAN]

DefaultSnapshot == [list |-> NoList, initial |-> FALSE]

SyncIdle == [step |-> "idle"]
Started  == [step : {"fetch", "save", "show"}, snapshot : Snapshot]
Pending  == [step : {"read"}, list : Lists] \cup [step : {"save"}, snapshot : Snapshot]

MobileTypeOK ==
    /\ arrived \subseteq Payments
    /\ stored \in Snapshot /\ shown \in Lists
    /\ syncs \in [Syncs -> Started \cup {SyncIdle}]
    /\ updates \in [Updates -> Pending \cup {SyncIdle}]
    /\ toldRead \subseteq Payments /\ baseline \subseteq Payments

MobileInit ==
    /\ arrived = {}
    /\ stored = DefaultSnapshot
    /\ shown = NoList
    /\ syncs = [s \in Syncs |-> SyncIdle]
    /\ updates = [u \in Updates |-> SyncIdle]
    /\ toldRead = {} /\ baseline = {}

-----------------------------------------------------------------------------
PaymentArrives(p) ==
    /\ arrived' = arrived \cup {p}
    /\ UNCHANGED <<stored, shown, syncs, updates, toldRead, baseline>>

(* A start shows nothing and loses what was under way. *)
AppIsKilled ==
    /\ shown' = NoList
    /\ syncs' = [s \in Syncs |-> SyncIdle]
    /\ updates' = [u \in Updates |-> SyncIdle]
    /\ UNCHANGED <<arrived, stored, toldRead, baseline>>

-----------------------------------------------------------------------------
Sync(s, to) == syncs' = [syncs EXCEPT ![s] = to]

(* What cannot be read or parsed is taken for a snapshot never stored.        *)
getSyncSnapshot == {stored, DefaultSnapshot}

(* performBackgroundSync reads first ...                                      *)
startSync(s) ==
    /\ syncs[s] = SyncIdle
    /\ \E snapshot \in getSyncSnapshot : Sync(s, [step |-> "fetch", snapshot |-> snapshot])
    /\ UNCHANGED <<arrived, stored, shown, updates, toldRead, baseline>>

(* Mutant: everything fetched for the first time is read. *)
mergeAsRead(snapshot) ==
    [list |-> [p \in DOMAIN snapshot.list \cup arrived |->
                  IF p \in DOMAIN snapshot.list THEN snapshot.list[p] ELSE TRUE],
     initial |-> TRUE]

(* What the snapshot does not list is added, read before the first sync.      *)
mergeSyncSnapshot(snapshot) ==
    [list |-> [p \in DOMAIN snapshot.list \cup arrived |->
                  IF p \in DOMAIN snapshot.list THEN snapshot.list[p] ELSE ~snapshot.initial],
     initial |-> TRUE]

fetchTransactions(s) ==
    /\ syncs[s].step = "fetch"
    /\ Sync(s, [step |-> "save", snapshot |-> mergeSyncSnapshot(syncs[s].snapshot)])
    /\ baseline' = IF syncs[s].snapshot.initial THEN baseline ELSE baseline \cup arrived
    /\ UNCHANGED <<arrived, stored, shown, updates, toldRead>>

(* ... and answers with what it read when there is no wallet or no network,   *)
(* or the request, or the write after it, failed. The start of the app, which reads the snapshot and  *)
(* then shows it, is such a sync, too.                                        *)
fetchFails(s) ==
    /\ syncs[s].step = "fetch"
    /\ Sync(s, [syncs[s] EXCEPT !.step = "show"])
    /\ UNCHANGED <<arrived, stored, shown, updates, toldRead, baseline>>

saveSyncSnapshot(s) ==
    /\ syncs[s].step = "save"
    /\ stored' = syncs[s].snapshot
    /\ Sync(s, [syncs[s] EXCEPT !.step = "show"])
    /\ UNCHANGED <<arrived, shown, updates, toldRead, baseline>>

(* syncNow shows whatever it is answered, the background task shows nothing.  *)
showSnapshot(s) ==
    /\ syncs[s].step = "show"
    /\ shown' = IF s \in Silents THEN shown ELSE syncs[s].snapshot.list
    /\ Sync(s, SyncIdle)
    /\ UNCHANGED <<arrived, stored, updates, toldRead, baseline>>

-----------------------------------------------------------------------------
Store(u, to) == updates' = [updates EXCEPT ![u] = to]

(* The listener's payment is shown, unless it is, and the list is stored.     *)
addNotification(u, p) ==
    /\ updates[u] = SyncIdle
    /\ p \in arrived \ DOMAIN shown
    /\ shown' = Put(shown, p, FALSE)
    /\ Store(u, [step |-> "read", list |-> shown'])
    /\ UNCHANGED <<arrived, stored, syncs, toldRead, baseline>>

markAllRead(u) ==
    /\ updates[u] = SyncIdle
    /\ shown' = [p \in DOMAIN shown |-> TRUE]
    /\ toldRead' = toldRead \cup DOMAIN shown
    /\ Store(u, [step |-> "read", list |-> shown'])
    /\ UNCHANGED <<arrived, baseline, stored, syncs>>

(* updateStoredSyncSnapshot reads the snapshot, replaces its list and writes. *)
readForUpdate(u) ==
    /\ updates[u].step = "read"
    /\ \E snapshot \in getSyncSnapshot :
          Store(u, [step |-> "save", snapshot |-> [snapshot EXCEPT !.list = updates[u].list]])
    /\ UNCHANGED <<arrived, stored, shown, syncs, toldRead, baseline>>

saveUpdate(u) ==  \* or the write fails
    /\ updates[u].step = "save"
    /\ stored' \in {updates[u].snapshot, stored}
    /\ Store(u, SyncIdle)
    /\ UNCHANGED <<arrived, shown, syncs, toldRead, baseline>>

-----------------------------------------------------------------------------
MobileNext ==
    \/ \E p \in Payments : PaymentArrives(p)
    \/ AppIsKilled
    \/ \E s \in Syncs :
          \/ startSync(s) \/ fetchTransactions(s) \/ fetchFails(s) \/ saveSyncSnapshot(s) \/ showSnapshot(s)
    \/ \E u \in Updates :
          \/ \E p \in Payments : addNotification(u, p)
          \/ markAllRead(u) \/ readForUpdate(u) \/ saveUpdate(u)

MobileSpec == MobileInit /\ [][MobileNext]_mobileVars

-----------------------------------------------------------------------------
ReadIn(list) == {p \in DOMAIN list : list[p]}

(* "marks first sync items as read", "adds later sync items as unread"        *)
(* (__tests__/background-sync.test.ts:9 and 29): whatever syncs, updates and  *)
(* restarts overlap, a payment is never listed as read, in the storage or on  *)
(* show, unless it was on show when the user marked all as read, or was       *)
(* fetched for a snapshot that had no first sync, or could not be read and    *)
(* was taken for one. (That a payment stays listed is not claimed: the syncs  *)
(* and updates replace each other's lists.)                                   *)
ReadWasSeen ==
    /\ ReadIn(stored.list) \subseteq toldRead \cup baseline
    /\ ReadIn(shown) \subseteq toldRead \cup baseline
=============================================================================

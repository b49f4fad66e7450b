------------------------------ MODULE MCPlatform ------------------------------
(***************************************************************************)
(* The services of the platform, checked in one run as MCPayments does it: *)
(* an initial state chooses the service that works.                        *)
(***************************************************************************)
EXTENDS Ingestion, Notifications, FeatureFlags, Registry, Reconciliation,
        ApiKeys, CursorPages, AuthSessions, StudyRooms, TLC

CONSTANTS a1, a2

VARIABLE working

platformVars == <<ingestVars, noteVars, flagVars, regVars, reconVars, keyVars, pageVars,
                  authVars, roomVars, working>>

Init ==
    /\ working \in {"ingestion", "notifications", "flags", "registry", "reconciliation",
                   "keys", "pages", "sessions", "rooms"}
    /\ IngestInit /\ NoteInit /\ FlagInit /\ RegInit /\ ReconInit
    /\ KeysInit /\ PagesInit /\ AuthInit /\ RoomInit
    /\ testnet => working = "flags"
    /\ shownRows # {} \/ endpoint # "refunds" => working = "pages"

Next ==
    /\ UNCHANGED working
    /\ IF working = "ingestion" THEN IngestNext ELSE UNCHANGED ingestVars
    /\ IF working = "notifications" THEN NoteNext ELSE UNCHANGED noteVars
    /\ IF working = "flags" THEN FlagNext ELSE UNCHANGED flagVars
    /\ IF working = "registry" THEN RegNext ELSE UNCHANGED regVars
    /\ IF working = "reconciliation" THEN ReconNext ELSE UNCHANGED reconVars
    /\ IF working = "keys" THEN KeysNext ELSE UNCHANGED keyVars
    /\ IF working = "pages" THEN PagesNext ELSE UNCHANGED pageVars
    /\ IF working = "sessions" THEN AuthNext ELSE UNCHANGED authVars
    /\ IF working = "rooms" THEN RoomNext ELSE UNCHANGED roomVars

Spec == Init /\ [][Next]_platformVars

Symmetry == Permutations({a1, a2})

LedgerOfEvent == <<1, 2, 2>>
KindOfEvent == <<"other", "unstored", "escrow">>
=============================================================================

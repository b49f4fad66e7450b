---------------------------- MODULE MCGovernance ----------------------------
(* Governance with three accounts, two of which are the first council. *)
EXTENDS GovernanceRefinement, TLC

CONSTANTS alice, bob, carol, code1, pauseDeposits

MCAccount   == {alice, bob, carol}
MCDeployers == {alice}
MCCode      == {code1}
MCCharters  == {<< <<alice, bob>>, 2>>}
MCWindows   == {<<1, 0>>}

UpdateSignerSet(list, t) == [tag |-> "UpdateSignerSet", signers |-> list, threshold |-> t]

CouncilActions ==
    {UpdateSignerSet(<<bob>>, 1), UpdateSignerSet(<<bob, carol>>, 2),
     UpdateSignerSet(<<alice>>, 2), UpdateSignerSet(<<bob, bob>>, 2)}

SettingActions ==
    {[tag |-> "SetPaused", paused |-> TRUE],
     [tag |-> "SetPauseFlags", enable |-> {pauseDeposits}, disable |-> {}],
     [tag |-> "SetFeeConfig", bps |-> MaxBps + 1],
     [tag |-> "SetPerAssetFee", bps |-> MaxBps, arbiterBps |-> 0],
     [tag |-> "SetPlatformWallet", wallet |-> carol]}

RoleActions ==
    {[tag |-> "SetAdmin", target |-> carol],
     [tag |-> "GrantRole", target |-> carol, role |-> 1],
     [tag |-> "RevokeRole", target |-> alice, role |-> 1],
     [tag |-> "UpgradeContract", hash |-> code1]}

MCActions == CouncilActions \cup SettingActions \cup RoleActions
=============================================================================

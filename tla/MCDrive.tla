------------------------------ MODULE MCDrive ------------------------------
(* The instance of Drive that TLC checks. *)
EXTENDS Drive

DriveOf(branches, cap, window, policy) ==
    [maxActiveBranches |-> branches, maxCampaigns |-> cap, window |-> window,
     policy |-> policy]

\* One campaign at a time, twice with approvals or once without.
OneBranch == {DriveOf(1, 2, 2, "RequireApproval"), DriveOf(1, 1, 2, "Auto")}
=============================================================================

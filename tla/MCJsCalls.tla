----------------------------- MODULE MCJsCalls -----------------------------
(* Two overlapping calls of any two methods out of one of each kind: with   *)
(* and without arguments, with an answer of its own, sharing an argument    *)
(* member, sharing an answer member, sharing one as argument and answer,    *)
(* and capturing by value.  The methods left out differ only in name from   *)
(* one of these.                                                            *)
EXTENDS JsCalls

MCCalls == 1..2
MCCalled == {CheckNewVersion, CancelUpgrade, Download, SetUpgradePolicy, GetUpgradePolicy,
             GetNewVersionDescription, GetCurrentVersionDescription, GetDeepFactoryResetInfo,
             ApplyNewVersion}
=============================================================================

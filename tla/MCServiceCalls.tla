--------------------------- MODULE MCServiceCalls ---------------------------
(* Two IPC threads, two calls, two updaters of firmware-or-not, callers    *)
(* with the permissions for some of the requests, and of the wrong kind.   *)
EXTENDS ServiceCalls

All == {"UPDATE_SYSTEM", "FACTORY_RESET", "FORCE_FACTORY_RESET"}
MCCallers == {[token |-> "HAP", uid |-> "app", system |-> TRUE, perms |-> All \ {"FACTORY_RESET"}],
              [token |-> "HAP", uid |-> "app", system |-> FALSE, perms |-> All],
              [token |-> "NATIVE", uid |-> "EDM", system |-> FALSE, perms |-> {"FACTORY_RESET"}]}
MCInfos == {[app |-> "a", subType |-> "FIRMWARE"], [app |-> "a", subType |-> "PARAM"]}
MCCodes == AllCodes \ {"RESUME_DOWNLOAD", "GET_CURRENT_VERSION", "GET_POLICY", "GET_CURRENT_VERSION_DESCRIPTION"}
MCHookable == {"FACTORY_RESET"}
=============================================================================

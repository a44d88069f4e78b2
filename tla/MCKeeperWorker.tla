--------------------------- MODULE MCKeeperWorker ---------------------------
(***************************************************************************)
(* Deployments for KeeperWorker.                                           *)
(***************************************************************************)
EXTENDS KeeperWorker, TLC

Plain(on, unset, malformed, limit) ==
    [on |-> on, unset |-> unset, malformed |-> malformed, limit |-> limit,
     size |-> [key \in Keys |-> 0]]

(* The text of one binding is long.                                        *)
Long(deployment, key, size) == [deployment EXCEPT !.size[key] = size]

(* As wrangler.jsonc sets them; named ids, without warnings and with a     *)
(* limit below their number; a dry run; three that are broken, two of them *)
(* where alerts go; and two whose ids are one long entry, alone and after  *)
(* another problem.                                                        *)
SomeDeployments ==
    {Plain({"NOTIFY_WARNINGS", "MIN_BALANCE_WEI"}, {}, {}, 2),
     Plain({"VOLUME_IDS"}, {"PAGE_SIZE"}, {}, 1),
     Long(Plain({"NOTIFY_WARNINGS", "DRY_RUN"}, {"CONFIRMATIONS"}, {}, 1),
          "DEPLOYMENT_NAME", 1),
     Plain({"NOTIFY_WARNINGS", "MIN_BALANCE_WEI"}, {}, {"TELEGRAM_CHAT_ID"}, 1),
     Plain({}, {"TELEGRAM_BOT_TOKEN", "PRIVATE_KEY"}, {}, 1),
     Plain({"NOTIFY_WARNINGS"}, {"CYCLE_TIMEOUT_MS"}, {"RPC_URL", "CHAIN_ID"}, 1),
     Long(Plain({"VOLUME_IDS"}, {}, {"VOLUME_IDS"}, 1), "VOLUME_IDS", 8),
     Long(Plain({"VOLUME_IDS"}, {"PRIVATE_KEY"}, {"VOLUME_IDS"}, 1), "VOLUME_IDS", 8)}
=============================================================================

---------------------------- MODULE MCRpcExchange ----------------------------
EXTENDS RpcExchange

CONSTANTS d1, unencodable, undecodable, p1, small, large, t1, t2

MCData == {d1, unencodable, undecodable}
MCInfo == [name |-> t1, cluster_address |-> t2, app_address |-> t1, public_address |-> t2]

MCAppend(entries) ==
  [kind |-> "append_entries", target |-> 2, term |-> 1, leader_id |-> 1,
   prev_log_index |-> 0, prev_log_term |-> 1, entries |-> entries, leader_commit |-> 0]

MCEntry(variant, content) ==
  [term |-> 1, index |-> 0, payload |-> [variant |-> variant, content |-> content]]

MCMembership ==
  [is_in_joint_consensus |-> TRUE, members |-> <<1, 2>>, non_voters |-> <<2>>, removing |-> <<>>]

MCInstall(data, done) ==
  [kind |-> "install_snapshot", target |-> 2, term |-> 1, leader_id |-> 1,
   last_included_index |-> 0, last_included_term |-> 1, offset |-> 0,
   data |-> data, done |-> done]

MCOversized == {MCInstall(large, FALSE)}

MCSendable ==
  {MCAppend(<<>>),
   MCAppend(<<MCEntry("Normal", d1), MCEntry("Blank", None)>>),
   MCAppend(<<MCEntry("ConfigChange", MCMembership), MCEntry("SnapshotPointer", p1)>>),
   MCAppend(<<MCEntry("Normal", unencodable)>>),
   MCAppend(<<MCEntry("Blank", None), MCEntry("Normal", undecodable)>>),
   MCInstall(small, TRUE),
   [kind |-> "vote", target |-> 2, term |-> 1, candidate_id |-> 1,
    last_log_index |-> 0, last_log_term |-> 1],
   [kind |-> "connect", id |-> 1, info |-> MCInfo]}
     \cup MCOversized
=============================================================================

----------------------------- MODULE MCArchive -----------------------------
(* Month 1 is the bundle, 2 is compiled in, 3 and 4 are published later;   *)
(* the releases page holds one entry.                                      *)
EXTENDS Archive

MCBuiltin == {2}
MCMixes == {<<2, 0>>, <<1, 2>>}
MCTypes == {"comments", "submissions"}
OneKind == {<<"comments">>}
BothKinds == {<<"comments", "submissions">>}
None == <<1, 0>>
MCFiles == Months \X MCTypes
MCPullArgs == {<< <<2, 3>>, None >>, << <<0, 0>>, <<3, 3>> >>}
MCDirs == {<<"entity", t>> : t \in MCTypes} \cup {<<"out">>}
          \cup {<<where, m, t>> : where \in {"work", "beside"}, m \in Months, t \in MCTypes}
=============================================================================

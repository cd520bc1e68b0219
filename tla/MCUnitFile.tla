------------------------------ MODULE MCUnitFile ------------------------------
(* Unit files on a small instance. *)
EXTENDS UnitFile

MCPieces == Literals \cup {"id1", "id2", "100", "101", "1000", "1001", "9999999999",
                           "//host/share", "/mnt/", "/", "/..", "a", "b", "u", "x", "nfs"}

MCWords == Keys \cup {"Install"}

Marker(auth) == [uid |-> "1000", gid |-> "100", id |-> "id1", auth |-> auth]

Ask(unc, where, auth) == [unc |-> <<"//host/share">> \o unc, where |-> <<"/mnt/">> \o where,
                          marker |-> Marker(auth)]

MCAsks == {Ask(<<"%", "u", "/">>, <<"a", "%", "%">>, "credentials"),
           Ask(<<"#">>, <<"\\", "040", "space", "b">>, "guest"),
           Ask(<<"\\", "040", "\\", "134", "x">>, <<"a">>, "guest"),
           Ask(<<"a", "\\">>, <<"a">>, "guest"),
           Ask(<<"a">>, <<"a", "space">>, "guest"),
           Ask(<<"/..">>, <<"a">>, "guest")}

MCEditBlocks == {<<Assign("What", <<"//host/share", "%", "u">>)>>, <<Assign("What", <<"//host/share", "\\">>)>>,
                 <<Assign("What", <<"//host/share", "a", "space">>)>>,
                 <<Assign("Where", <<"/mnt/", "a", "%", "%">>)>>, <<Assign("Type", <<"nfs">>)>>,
                 <<Assign("ConditionPathIsDirectory", <<"/">>)>>,
                 <<Header("Mount")>>, <<Header("Install")>>,
                 <<Header("Install"), Indented("Mount")>>, <<Header("Install"), Indented("Unit")>>,
                 <<Field("Owner-Uid", "1001")>>, <<Field("Owner-Gid", "101")>>}
===============================================================================

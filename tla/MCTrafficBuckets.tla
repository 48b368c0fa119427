--------------------------- MODULE MCTrafficBuckets ---------------------------
(* Former databases for TLC: none, some or all of the added columns; rows  *)
(* with malformed names, without a kind, and known by a client id only.    *)
EXTENDS TrafficBuckets

SomeColumns == {{}, {"client_id", "device_id", "request_path"}, AddedColumns}

Row(user, clientID, clientName, device, path) ==
  [c \in Columns |->
     CASE c = "user_id" -> user [] c = "client_id" -> clientID
       [] c = "client_name" -> clientName [] c = "device_name" -> device
       [] c = "request_path" -> path [] c = "traffic_kind" -> Text("")
       [] OTHER -> Null]

SomeRows ==
  {<<Row(<<"alice", 2>>, <<"client:vidhub", 1>>, <<"vidhub", 1>>, Null, Text("item")),
     Row(Null, Text("client:vidhub"), Null, Text("tv"), Text("public"))>>,
   <<Row(Text("alice"), Text("ua:player"), Null, Null, Text("nested")),
     Row(Text(""), <<"ua:player", 1>>, Null, Null, Text("nested"))>>}

==============================================================================

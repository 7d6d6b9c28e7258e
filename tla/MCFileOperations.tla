--------------------------- MODULE MCFileOperations ---------------------------
(* FileOperations for TLC: two Linux directories, the Windows ones behind     *)
(* /mnt, two names and three files; one scenario per way operations meet.     *)
EXTENDS FileOperations, TLC

MCVolume == ("a" :> "home" @@ "b" :> "home" @@ "w" :> "c" @@ "x" :> "c" @@ "v" :> "d")
Layout(pairs) == [p \in Places |-> IF \E q \in pairs : q[1] = p
                                   THEN (CHOOSE q \in pairs : q[1] = p)[2] ELSE Absent]
Put(from, to) == [from |-> from, to |-> to, content |-> Absent]
Into(kind, dest, sources) ==
  [kind |-> kind, items |-> [i \in DOMAIN sources |-> Put(sources[i], <<dest, sources[i][2]>>)]]
Away(kind, sources) == [kind |-> kind, items |-> [i \in DOMAIN sources |-> Put(sources[i], sources[i])]]
Back(names) == [kind |-> "restore", items |-> names]
Text(kind, place, c) == [kind |-> kind, items |-> <<[from |-> place, to |-> place, content |-> c]>>]

AN == <<"a", "n">>  AM == <<"a", "m">>  BN == <<"b", "n">>
WN == <<"w", "n">>  WM == <<"w", "m">>  VN == <<"v", "n">>

Three == Layout({<<AN, "c1">>, <<AM, "c2">>, <<BN, "c3">>})
Windows == Layout({<<WN, "c1">>, <<WM, "c2">>, <<AN, "c3">>})

Plan(layout, faults, cancels, requests) ==
  [requests |-> requests, files |-> layout, faults |-> faults, cancels |-> cancels]

MCScenarios == {
  \* batches against each other and against a save
  Plan(Three, 2, 1, <<Into("move", "b", <<AN, AM>>), Into("copy", "a", <<BN>>), Text("save", AM, "c4")>>),
  Plan(Three, 2, 1, <<Into("copy", "b", <<AM, AN>>), [kind |-> "rename", items |-> <<Put(BN, <<"b", "m">>)>>],
                     Text("create", <<"b", "m">>, "c4")>>),
  \* the trash: equal names, a restore while another batch is trashed, deletion
  Plan(Three, 2, 0, <<Away("trash", <<AN, BN>>), Back(<<<<"n", 2>>, <<"n", 1>>>>), Into("move", "a", <<BN>>)>>),
  Plan(Three, 2, 0, <<Away("trash", <<AM, AN>>), Back(<<<<"n", 1>>, <<"m", 1>>>>), Away("remove", <<BN, AM>>)>>),
  \* two batches that choose the same trash names, one from another volume
  Plan(Windows, 2, 0, <<Away("trash", <<WN, WM>>), Away("trash", <<AN>>), Back(<<<<"n", 1>>>>)>>),
  \* a copy left in the trash is put back, and its name chosen again, before the batch
  \* that left it has removed the record
  Plan(Windows, 0, 0, <<Away("trash", <<WN>>), Back(<<<<"n", 1>>>>), Into("winMove", "x", <<WN>>),
                        Away("trash", <<AN>>)>>),
  \* imports, exports and the Windows pane
  Plan(Windows, 2, 1, <<Into("winMove", "v", <<WN, WM>>), Into("import", "b", <<WM, WN>>), Into("export", "v", <<AN>>)>>),
  Plan(Windows, 2, 1, <<Into("winMove", "x", <<WM, WN>>), Into("winCopy", "v", <<WN>>)>>),
  \* moves to another volume whose source is written to meanwhile
  Plan(Windows, 2, 1, <<Into("winMove", "v", <<WN, WM>>), Text("save", WN, "c4"), Into("move", "w", <<AN>>)>>) }
=============================================================================

--------------------------- MODULE MCWslSettings ---------------------------
(* Files with a key of every kind, a duplicate, a heading WSL has left, a key  *)
(* in the wrong file, one that is misspelt, and one before any heading.        *)
EXTENDS WslSettings

MCContents == [windows |->
  {<<Remark, Heading("wsl2"), Pair("networkingMode", "nat"), Pair("networkingMode", "mirrored"),
     Pair("dnsTunneling", "false"), Pair("processors", "2"), Pair("memory", "7GB")>>,
   <<Pair("processors", "4"), Heading("experimental"), Pair("networkingMode", "mirrored"), Pair("reclaim", "gradual"),
     Heading("wsl2"), Pair("memroy", "8GB"), Pair("processors", "999"), Pair("memory", "8GB")>>},
  linux |->
  {<<Heading("boot"), Pair("systemd", "false"), Pair("systemd", "true"),
     Heading("interop"), Pair("enabled", "false"), Heading("network"), Pair("enabled", "false"), Remark,
     Heading("wsl2"), Pair("networkingMode", "mirrored")>>}]

\* In tenths of a GB.
MCSize ==
  [v \in {"7GB", "8GB", ByMachine} |-> CASE v = "7GB" -> 70 [] v = "8GB" -> 80 [] OTHER -> 160]
MCTotal ==
  [v \in {"7GB", "8GB", ByMachine} |-> CASE v = "7GB" -> 68 [] v = "8GB" -> 78 [] OTHER -> 156]
=============================================================================

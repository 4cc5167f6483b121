---------------------------- MODULE MCPolicyReport ----------------------------
EXTENDS PolicyReport

(* One policy that is valid, and variations of one section at a time.      *)
Text(w) == [word |-> w, padded |-> FALSE]
Padded(w) == [word |-> w, padded |-> TRUE]
Abs(comps) == Path(TRUE, comps)

Good == [protocol |-> Text("tcp"), host |-> Text("host"), cidr |-> Text("none"), port |-> 443]
SingleRules ==
         [protocol : {Text("none"), Text("tcp"), Padded("udp"), Text("icmp")},
          host : {Text("none"), Padded(""), Text("host")},
          cidr : {Text("none"), Text(""), Padded("net"), Text("junk")},
          port : {-1, 0, 1, 65535, 65536}]
GoodCidr == [Good EXCEPT !.host = Padded(""), !.cidr = Padded("net")]
Networks == [mode : {"none", "allowlist"},
             egress : {<<>>} \cup {<<r>> : r \in SingleRules}
                      \cup {<<Good, r>> : r \in {Good, GoodCidr, [Good EXCEPT !.port = 65536]}}
                      \cup {<<GoodCidr, Good>>}]

Memories == [number : {0, 1, 2, 1023, 1024, 1025, 2047, 2048},
             unit : {"Ki", "Mi", "Gi", "KB"}, padded : BOOLEAN]

Steps == {"a", "proc", ".", ".."}
Sources == {Path(abs, comps) : abs \in BOOLEAN, comps \in SeqOf(Steps, 4)}
           \cup {Abs(<<"a", "x", "..", "..", "proc">>), Abs(<<"a", "..", "..", "a", "x">>)}
Mount(source, target, real) ==
  [source |-> source, target |-> target, read_only |-> TRUE, real |-> real]
Missing == [kind |-> "missing", path |-> Abs(<<>>)]
Denied == [kind |-> "denied", path |-> Abs(<<>>)]
Real(p) == [kind |-> "path", path |-> p]
GoodMount == Mount(Abs(<<"a", "x">>), Abs(<<"data">>), Missing)
MountCases == {Mount(s, Abs(<<"data">>), Missing) : s \in Sources}
          \cup {Mount(Abs(<<"a", "x">>), Abs(<<"data">>), r) : r \in
                 {Denied} \cup {Real(Abs(p)) : p \in {<<"a">>, <<"b">>, <<"proc", "a">>}}}
          \cup {Mount(Abs(<<"a", "x">>), t, Missing) : t \in
                 {Abs(<<>>), Abs(<<".">>), Abs(<<"usr", "b">>), Abs(<<"data", ".", "c">>),
                  Abs(<<"data", "..", "proc">>), Abs(<<"data", "c", "..", "d">>),
                  Path(FALSE, <<"data">>), Path(FALSE, <<>>)}}
          \cup {[GoodMount EXCEPT !.read_only = FALSE]}

Plain == [bad |-> {}, network |-> [mode |-> "none", egress |-> <<>>],
          memory |-> [number |-> 256, unit |-> "Mi", padded |-> FALSE],
          mounts |-> <<>>]

MCPolicies ==
  {[Plain EXCEPT !.network = n] : n \in Networks}
  \cup {[Plain EXCEPT !.memory = m] : m \in Memories}
  \cup {[Plain EXCEPT !.mounts = <<m>>] : m \in MountCases}
  \cup {[Plain EXCEPT !.mounts = <<GoodMount, m>>,
                  !.network = [mode |-> "allowlist", egress |-> <<Good, Good>>]]
          : m \in {GoodMount, Mount(Abs(<<"b">>), Abs(<<"data">>), Missing)}}
  \cup {[Plain EXCEPT !.bad = {f}] : f \in {"apiVersion", "command"}}

MCAllowlists ==
  {[host |-> {Abs(<<"a">>)}, guest |-> {Abs(<<"data">>)}],
   [host |-> {Abs(<<>>)}, guest |-> {Abs(<<>>)}],
   [host |-> {Abs(<<".", "a">>)}, guest |-> {Abs(<<"data", ".">>)}],
   [host |-> {Abs(<<"a">>)}, guest |-> {Path(FALSE, <<"data">>)}]}
=============================================================================

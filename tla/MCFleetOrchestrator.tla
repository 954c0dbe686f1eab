------------------------ MODULE MCFleetOrchestrator ------------------------
(* Runs of a fleet of one while another caller launches its agent or the    *)
(* key is rotated; of a fleet of two, as it is and as its canary; a legacy  *)
(* spec without a backend, a dry run, an invalid spec, an agent refused.    *)
EXTENDS FleetOrchestrator

MCKind ==
    [r \in Req |-> CASE r = "other" -> "claude" [] r = "rotate" -> "rotate" [] OTHER -> "codex"]
MCFor == [r \in Req |-> CASE r = "r2" -> "a2" [] r = "r3" -> "a3" [] OTHER -> "a1"]
MCRunReq == [a \in Agent |-> CASE a = "a1" -> "r1" [] a = "a2" -> "r2" [] OTHER -> "r3"]
MCCanaryId == <<"a1", "a2">>

A(id, role, rt, p) ==
    [id |-> id, role |-> role, runtime |-> rt, provider |-> p, thread |-> "t", cwd |-> None,
     task |-> TRUE]
Fleet(agents, p, cwd) ==
    [runtime |-> "codex", provider |-> p, write |-> TRUE, cwd |-> cwd, agents |-> agents]
Two == Fleet(<<A("a1", "worker", None, "docker-codex"), A("a2", "manager", "claude-live", None)>>,
             None, "in")
One(id, cwd) == Fleet(<<A(id, "worker", None, "docker-codex")>>, None, cwd)
Line(w, role, rest) == [word |-> w, role |-> role, rest |-> rest]
Legacy ==
    LegacySpec(<<Line("BASE", None, "out"), Line("a1", "worker", "task"), Line("FLEET", None, "f"),
                 Line("a2", "manager", "task")>>, "codex", FALSE)

Old(a, type) == [from |-> a, corr |-> "old", type |-> type, kind |-> "completed"]
Load(s, mode, backend, stop, others, old) ==
    [spec |-> s, mode |-> mode, backend |-> backend, stop |-> stop, others |-> others, old |-> old]

MCLoads ==
    <<Load(One("a1", "in"), "full", "http", TRUE, {"other"}, {Old("a1", "reply")}),
      Load(One("a1", "out"), "full", "http", FALSE, {"rotate", "other"}, {}),
      Load(Legacy, "full", "none", TRUE, {"other"}, {}),
      Load(Two, "full", "http", FALSE, {}, {Old("a2", "msg")}),
      Load(Two, "canary", "http", TRUE, {}, {}),
      Load(Two, "dry", "http", TRUE, {}, {}),
      Load([Two EXCEPT !.provider = "tmux-claude-live"], "full", "http", FALSE, {}, {}),
      Load(One("a3", "out"), "full", "http", FALSE, {}, {})>>
=============================================================================

-------------------------- MODULE MC_ParamOverride --------------------------
(***************************************************************************)
(* Model-checking instance of ParamOverride: two bodies and every program *)
(* of one or two operations from a pool that reaches each branch of        *)
(* applyOperations and of sjson.Set on an indexed path (an item replaced   *)
(* by an array, an edit of that nested array, an index past the end, and  *)
(* an index below -1), plus the empty, the legacy and a malformed setting. *)
(***************************************************************************)
EXTENDS ParamOverride

\* "" is the path of an operation that has no from or to.
MCKeys == {"a", "b", ""}

\* {"a": [1, "x"], "b": {"a": null, "b": 2}} and {"a": "x", "b": 1}.
Body1 == ("a" :> Arr(<<Num(1), Str(<<"x">>)>>)) @@
         ("b" :> Obj(("a" :> Null) @@ ("b" :> Num(2))))
Body2 == ("a" :> Str(<<"x">>)) @@ ("b" :> Num(1))

MCInputDocs == {Body1, Body2}

NoPath == Top("")

Cond(path, mode, value) ==
    [path |-> path, mode |-> mode, value |-> value, invert |-> FALSE,
     passMissingKey |-> FALSE]

Op(mode, path, value, keepOrigin, conds) ==
    [mode |-> mode, path |-> path, value |-> value, keepOrigin |-> keepOrigin,
     from |-> NoPath, to |-> NoPath, conditions |-> conds, logic |-> "OR"]

Move(from, to) ==
    [Op("move", NoPath, Null, FALSE, <<>>) EXCEPT !.from = from, !.to = to]

Pool ==
    { Op("set", Top("b"), Num(2), FALSE, <<Cond(At("a", -1), "full", Str(<<"x">>))>>),
      Op("set", Top("a"), Num(1), TRUE, <<>>),
      Op("append", Top("a"), Num(2), FALSE, <<>>),
      Op("prepend", Top("a"), Arr(<<Num(1)>>), FALSE, <<>>),
      Op("delete", At("a", -1), Null, FALSE, <<>>),
      Move(At("a", 0), Top("b")),
      Move(Top("b"), Top("b")),
      Op("set", At("a", 0), Arr(<<Num(2)>>), FALSE, <<>>),
      Op("append", At("a", 0), Num(1), FALSE, <<>>),
      Op("set", At("a", -3), Num(1), FALSE, <<>>),
      Move(Top("b"), At("a", 3)),
      Op("append", Top("b"), Obj("a" :> Num(1)), TRUE, <<>>),
      Op("set", Top("a"), Bool(TRUE), FALSE, <<Cond(Top("b"), "gt", Num(1))>>),
      [Op("delete", Top("b"), Null, FALSE,
          <<Cond(Top("a"), "prefix", Str(<<"x">>)), Cond(Top("b"), "lte", Num(2))>>)
         EXCEPT !.logic = "and"] }

\* An operation whose "mode" is not a string.
Malformed == [Op("set", Top("b"), Num(3), FALSE, <<>>) EXCEPT !.mode = NoMode]

MCInputOverrides ==
    {[kind |-> "ops", ops |-> s] : s \in UNION {[1..n -> Pool] : n \in 1..2}}
    \cup {[kind |-> "ops", ops |-> <<Malformed>>],
          [kind |-> "empty"],
          [kind |-> "map", m |-> ("b" :> Num(3))]}
=============================================================================

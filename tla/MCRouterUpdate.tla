--------------------------- MODULE MCRouterUpdate ---------------------------
(***************************************************************************)
(* Instances of RouterUpdate: two versions of one local family, replays of *)
(* both, evaluations of one against captured and against committed work.   *)
(***************************************************************************)
EXTENDS RouterUpdate

Token(sep, stem, version) == [sep |-> sep, stem |-> stem, version |-> version]

MCQwen(version) == <<Token("", "qwen", version), Token("-", "coder", ""), Token(":", "7b", "")>>
MCTokens ==
    "human" :> <<Token("", "human", "")>>
      @@ "claude-opus-5" :> <<Token("", "claude", ""), Token("-", "opus", ""), Token("-", "", "5")>>
      @@ "qwen2.5-coder:7b" :> MCQwen("2.5")
      @@ "qwen3-coder:7b" :> MCQwen("3")

Piece(id, frontier, local) ==
    [id |-> id, turnType |-> "plan", subsystem |-> "", frontier |-> frontier, local |-> local]

MCNone == <<>>
MCFrontier == {"claude-opus-5"}
MCLocal == {"qwen2.5-coder:7b"}
MCVerifications ==
    {Piece("v1", "claude-opus-5", "qwen2.5-coder:7b"), Piece("v2", "claude-opus-5", "qwen3-coder:7b")}
MCEvalResults == {Piece("e1", "claude-opus-5", "qwen2.5-coder:7b")}
MCSeeded == {Piece("e1", "", "qwen2.5-coder:7b")}
=============================================================================

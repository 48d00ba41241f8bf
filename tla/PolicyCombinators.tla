------------------------- MODULE PolicyCombinators --------------------------
(***************************************************************************)
(* policies/conditions.py: the any/all/not combinators of a when block,    *)
(* which nest.  Holds is what PolicyDecisions asks of a block.             *)
(***************************************************************************)
EXTENDS PolicyDecisions

Combinators == {"any", "all", "not"}

(* match_conditions_with_combinators: of several combinators in one block    *)
(* the first of any, all, not decides, and it decides without its siblings.  *)
RECURSIVE Holds(_, _, _)
Holds(when, q, meta) ==
  IF "any" \in DOMAIN when
    THEN when["any"] # Malformed
         /\ \E i \in DOMAIN when["any"] : Holds(when["any"][i], q, meta)
  ELSE IF "all" \in DOMAIN when
    THEN when["all"] # Malformed
         /\ \A i \in DOMAIN when["all"] : Holds(when["all"][i], q, meta)
  ELSE IF "not" \in DOMAIN when
    THEN when["not"] # Malformed /\ ~Holds(when["not"], q, meta)
  ELSE \A key \in DOMAIN when : MatchCondition(key, when[key], q, meta)

(* What a block says: every one of its keys must match.                      *)
RECURSIVE Says(_, _, _)
Says(when, q, meta) ==
  \A key \in DOMAIN when :
    CASE key = "any" -> \E i \in DOMAIN when[key] : Says(when[key][i], q, meta)
      [] key = "all" -> \A i \in DOMAIN when[key] : Says(when[key][i], q, meta)
      [] key = "not" -> ~Says(when[key], q, meta)
      [] OTHER -> MatchCondition(key, when[key], q, meta)

-----------------------------------------------------------------------------
(* docs/api.md:1787: "every key in a `when:` block must match for the rule   *)
(* to apply."                                                                *)
EveryKeyMustMatch ==
  decided # Undecided =>
    LET q == Asked(decided.query) IN
    \A i \in DOMAIN rules :
      Holds(rules[i].when, q, MetaOf(q.tool)) => Says(rules[i].when, q, MetaOf(q.tool))
=============================================================================

----------------------------- MODULE RegexTree -----------------------------
(***************************************************************************)
(* The elements of an expression at every depth.                           *)
(***************************************************************************)
EXTENDS RegexElements

\* The chains directly below an element.
ChainsOf(el) ==
  CASE el.kind \in {"Group", "NonCapturingGroup", "AtomicGroup", "Look"} -> <<el.elements>>
    [] el.kind = "Alternatives" -> el.alternatives
    [] el.kind = "ConditionalElement" -> <<el.look.elements>> \o el.alternatives.alternatives
    [] OTHER -> <<>>

(***************************************************************************)
(* All elements of a chain, at every depth, with their addresses: the      *)
(* numbers of the elements and chains on the way down.                     *)
(***************************************************************************)
RECURSIVE ElementsIn(_, _)
ElementsIn(chain, path) ==
  UNION { LET here == Append(path, k)
              el   == chain[k].el
          IN {<<here, chain[k]>>}
               \cup UNION { ElementsIn(ChainsOf(el)[j], Append(here, j)) :
                              j \in DOMAIN ChainsOf(el) } :
            k \in DOMAIN chain }
=============================================================================

------------------------------ MODULE MCDecode ------------------------------
(* Every mod, rm 0, 4 and 5, reg 0, 1 and 6, a SIB byte with and without base.*)
EXTENDS DecodeCheck

MCLegacies == {<<>>, <<\h66>>, <<\hF3>>, <<\hF0>>, <<\h67>>, <<\h66, \hF2>>}
MCRexes == {<<>>, <<\h41>>, <<\h44>>, <<\h4C>>}
MCModRMs == {64 * mod + 8 * reg + rm : mod \in 0 .. 3, reg \in {0, 1, 6}, rm \in {0, 4, 5}}
MCSibs == {\h00, \h25}
=============================================================================

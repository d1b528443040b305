---------------------------- MODULE MCServerMain ----------------------------
EXTENDS ServerMain

\* A port, one beyond 16 bits, and a text in which atoi finds no number.
MCTexts == {"443", "70000", "word"}
MCAtoi == [t \in MCTexts |-> CASE t = "443" -> 443 [] t = "70000" -> 70000 [] OTHER -> 0]
=============================================================================

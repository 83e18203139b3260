------------------------------- MODULE MCProcess -------------------------------
(* Every program over two variables and literals at the edge of uint16_t, up  *)
(* to a length at which a result computed with a wrap is an operand again.    *)
EXTENDS Process

CONSTANTS x, y
MCVariables == {x, y}
===============================================================================

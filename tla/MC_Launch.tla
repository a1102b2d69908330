------------------------------ MODULE MC_Launch ------------------------------
(* Command lines for TLC: values at the limits and beyond them, a value too  *)
(* wide for 8, 16, 32 and 64 bits, a parameter given twice.                  *)
EXTENDS Launch

CONSTANTS Numbers,      \* values below 2^31 to give to parameters
          Repeated      \* parameters that may be given twice

Names == DOMAIN ServerParameters \cup DOMAIN ClientParameters \cup {"unknown"}

Number(high, low, isName) == [kind |-> "number", high |-> high, low |-> low, isName |-> isName]

Values == {Number(0, n, TRUE) : n \in Numbers}
          \cup {Number(0, 6, FALSE), Number(1, 6, TRUE)}
          \cup [kind : {"huge", "text"}, isName : BOOLEAN]

Options(names) == [name : names, value : Values]

MCCommandLines ==
    [program : {"server", "client"}, positional : 0 .. 2,
     options : {<<>>} \cup {<<o>> : o \in Options(Names)}
               \cup Options(Repeated) \X Options(Repeated)]
=============================================================================

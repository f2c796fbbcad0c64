--------------------------- MODULE MCTransaction ---------------------------
(* A keymap of two layers with one key, and a feature of two pages.        *)
EXTENDS TransactionSafety

MCCells  == {<<"base", 1>>, <<"fn", 1>>, <<"page", 1>>, <<"page", 2>>}
MCValues == {0, 1, 2}

Held(base, fn, first, second) ==
    [c \in Cells |-> CASE c = <<"base", 1>> -> base [] c = <<"fn", 1>> -> fn
                       [] c = <<"page", 1>> -> first [] c = <<"page", 2>> -> second]
Ask(kind, expected, target) == [kind |-> kind, expected |-> expected, target |-> target]

MCRequests ==
    {Ask("keymaps", Held(0, 0, 0, 0), Held(1, 2, 0, 0)),
     Ask("keymaps", Held(0, 0, 0, 0), Held(0, 1, 0, 0)),
     Ask("macro", Held(0, 0, 0, 0), Held(0, 0, 1, 0)),
     Ask("macro", Held(0, 0, 0, 0), Held(0, 0, 0, 0)),
     Ask("setting", Held(0, 0, 0, 0), Held(0, 0, 1, 0)),
     Ask("picture", Held(0, 0, 0, 0), Held(0, 0, 0, 1)),
     Ask("lighting", Held(0, 0, 0, 0), Held(0, 0, 1, 0)),
     Ask("host", Held(0, 0, 0, 0), Held(0, 0, 1, 0)),
     Ask("archive", Held(0, 0, 0, 0), Held(0, 1, 1, 0))}
MCForeign == {Held(1, 0, 0, 1)}
===========================================================================

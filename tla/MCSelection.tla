---------------------------- MODULE MCSelection -----------------------------
(* A small instance of Selection. *)
EXTENDS Selection

CONSTANTS alice, bob

Entry(i, t, o, sh, n) == [id |-> i, type |-> t, owner |-> o, shared |-> sh, order |-> n]

\* A global repository and its local copy, a library of bob with the same key as
\* the copy, and a library of alice under the name of the wiki.
MCCatalogue == <<Entry("x", "local", NoUser, FALSE, 20), Entry("x", "github", NoUser, TRUE, 10),
                 Entry("x", "local", bob, TRUE, 10000), Entry("wiki", "local", alice, FALSE, 10000)>>

MCPresetIds == [all |-> Everything, wiki |-> <<<<"wiki", AnyType>>>>]

\* "sources" is no preset, though docs/reference/sources.md:137 lists it.
MCPayloads ==
    {[preset |-> "custom", ids |-> <<<<"x", "local">>>>, order |-> NoRow],
     [preset |-> "custom", ids |-> <<<<"x", AnyType>>, <<"wiki", "local">>>>, order |-> NoRow],
     [preset |-> "all", ids |-> <<>>, order |-> NoRow],
     [preset |-> "sources", ids |-> NoRow, order |-> NoRow],
     [preset |-> "wiki", ids |-> NoRow, order |-> NoRow],
     [preset |-> NoRow, ids |-> NoRow, order |-> <<<<"wiki", "local">>, <<"x", AnyType>>>>]}

MCRequests ==
    {[preset |-> NoRow, ids |-> <<>>, saved |-> TRUE],
     [preset |-> "all", ids |-> <<>>, saved |-> TRUE],
     [preset |-> "wiki", ids |-> <<>>, saved |-> TRUE],
     [preset |-> NoRow, ids |-> <<<<"x", AnyType>>>>, saved |-> FALSE]}
=============================================================================

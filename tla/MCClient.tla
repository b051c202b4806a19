------------------------------ MODULE MCClient ------------------------------
\* Client for TLC.
EXTENDS Client

\* A key that is taken in, one that commits, one that is not for the session, a
\* command that commits, which the journal treats differently, and a test key.
edit == <<"SEND_KEY", "edit">>
submit == <<"SEND_COMMAND", "commit">>
MCKind == {edit, <<"SEND_KEY", "commit">>, <<"SEND_KEY", "pass">>, submit,
           <<"TEST_SEND_KEY", "edit">>}

\* Two inputs and one fault, with every operation of the client.
Plain == [keys |-> 2, kinds |-> {edit}, faults |-> 1, versions |-> {"same"},
          quick |-> TRUE, others |-> TRUE, interval |-> FALSE]

\* More inputs than the journal holds; every kind of input; two faults; servers of
\* other versions; and servers that start and end slowly.
MCBounds ==
    {[Plain EXCEPT !.keys = 4, !.kinds = {edit, submit}, !.others = FALSE],
     [Plain EXCEPT !.kinds = Kind, !.interval = TRUE],
     [Plain EXCEPT !.faults = 2],
     [Plain EXCEPT !.keys = 1, !.versions = Version],
     [Plain EXCEPT !.keys = 0, !.quick = FALSE]}

\* For the journal after two losses: inputs and calls of a command.
JournalBounds == {[Plain EXCEPT !.keys = 3, !.faults = 2]}
=============================================================================

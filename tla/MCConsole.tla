------------------------------ MODULE MCConsole ------------------------------
(* Values for the constants of Console. *)
EXTENDS Console

CONSTANTS one, two

TwoPeers == {one, two}

NoneOrAll == {<< >>, <<"tunnel", "required tor">>, <<"tor", "i2p">>}

Receiver(idle, peers) == [name |-> "recv", idle |-> idle, peers |-> peers]

Sender(name) == [name |-> name, idle |-> 0, peers |-> {}]

\* A receiver with an idle timeout has one peer on the libp2p path; one without
\* has two, whose sessions may overlap.
AllCommands ==
  {Receiver(2, {one}), Receiver(0, TwoPeers), Sender("direct"), Sender("named")}
===============================================================================

------------------------------- MODULE MCArchive -------------------------------
(* Archive on command lines of one to three inputs.                          *)
EXTENDS Archive

\* Directory 1 with file 1/1, and files 2 and 3.
MCPath == {<<1>>, <<1, 1>>, <<2>>, <<3>>}

Of(path, type, nested) == [path |-> path, type |-> type, nested |-> nested]

\* A directory and a file; two files of one name from different directories; a
\* name the receiver refuses; what cannot be sent, inside a directory or not.
MCInputs ==
  { <<Of(<<1>>, "dir", FALSE), Of(<<1, 1>>, "file", TRUE), Of(<<2>>, "file", FALSE)>>,
    <<Of(<<2>>, "file", FALSE), Of(<<2>>, "file", FALSE)>>,
    <<Of(<<1>>, "special", FALSE), Of(<<2>>, "file", FALSE)>>,
    <<Of(<<1>>, "dir", FALSE), Of(<<1, 1>>, "special", TRUE)>>,
    <<Of(<<3>>, "file", FALSE)>>,
    <<Of(<<1>>, "dir", FALSE), Of(<<1, 1>>, "symlink", TRUE)>> }

MCRefused == {<<3>>}
MCContent == {<<1>>, <<2>>, <<1, 2>>}
===============================================================================

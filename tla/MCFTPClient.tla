----------------------------- MODULE MCFTPClient -----------------------------
(***************************************************************************)
(* Sessions of FTPClient for TLC: the ones of main and of the test suite,  *)
(* with every kind of server.                                              *)
(***************************************************************************)
EXTENDS FTPClient

Listing == <<"PASV", "LIST", "read">>
Storing == <<"PASV", "STOR", "send">>

\* SQLiteBackup.cpp:76-104.
Main == <<"CMD">> \o Listing \o <<"CMD">> \o Listing \o Storing

\* TestFTPClient.cpp: the five tests and TearDownTestCase.
Tests == <<"CMD">> \o Listing \o Storing \o <<"CMD">> \o Listing \o <<"CMD", "CMD", "CMD">>

\* main without its two LISTs.
Store == <<"CMD", "CMD">> \o Storing

\* Listings that fit into one recv, that take two, and that exceed what the
\* connection holds; replies that arrive whole or in pieces.
MCSessions ==
    [program : {Main, Tests, Store}, cuts : BOOLEAN, listing : {0, 1, 2, Buffer + 1},
     sequential : BOOLEAN, fault : {"none", "refuses", "drops", "aborts"}]

\* What the theorem about uploads supposes of the sessions.
ASSUME UploadsAssumption == OneUpload

\* main with a server that does nothing unexpected.
MainSession ==
    {[program |-> Main, cuts |-> FALSE, listing |-> 1, sequential |-> TRUE, fault |-> "none"]}
=============================================================================

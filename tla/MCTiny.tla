------------------------------- MODULE MCTiny -------------------------------
(* An instance of the web server for TLC.                                     *)
EXTENDS Tiny, TLC

Query(n1, n2) == [amp |-> TRUE, named1 |-> TRUE, named2 |-> TRUE, n1 |-> n1, n2 |-> n2]

Home == [path |-> << "/" >>, query |-> None]
Picture == [path |-> << "/", "g", ".png" >>, query |-> None]
Adder == [path |-> << "/", "cgi-bin", "adder" >>, query |-> Query(1, 2)]
Bare == [Adder EXCEPT !.query = None]
LongName == [path |-> << "/", "long", "/" >>, query |-> None]
Missing == [Home EXCEPT !.query = Query(1, 2)]

SomeUris == {Home, Bare}

HomeName == << "/", "home", ".html" >>
Overwritten == << "image/", ".png" >>
SomeNames == {HomeName, Picture.path, Adder.path, Overwritten}

Long == [kind |-> "file", readable |-> TRUE, executable |-> FALSE, bytes |-> << "x", "y" >>]
Emptied == [Long EXCEPT !.bytes = << >>]
Short == [Long EXCEPT !.bytes = << "x" >>]
Program == [Long EXCEPT !.executable = TRUE]

AtStart == [name \in SomeNames |-> IF name = Adder.path THEN Program
                           ELSE IF name = Overwritten THEN NoFile ELSE Long]
Later == [name \in SomeNames |->
            IF name = HomeName THEN {Emptied, [Long EXCEPT !.readable = FALSE]}
            ELSE IF name = Adder.path THEN {Long}
            ELSE IF name = Overwritten THEN {Short} ELSE {}]

Get(uri) == RequestLine("GET", uri)

Simple == << Get(Home), Blank >>

SomeScripts ==
    {<< >>, Simple, << Get(Home), Header >>, << Get(Picture), Blank >>,
     << Get(Adder), Blank >>, << Get(Bare), Blank >>, << Get(Missing), Blank, Header >>,
     << RequestLine("other", Home), Header, Blank >>, << Get(LongName), Blank >>}

(* One client sends any of these, and another a simple request.               *)
CONSTANTS First, Second
SomeScenarios == {(First :> s) @@ (Second :> Simple) : s \in SomeScripts}

=============================================================================

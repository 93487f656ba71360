------------------------------ MODULE MCHttp3 ------------------------------
(* What the peer sends in the runs on Http3. *)
EXTENDS Http3

Headers == <<HEADERS, 1, 50>>
Data(body) == <<DATA, Len(body)>> \o body
Grease == <<33, 1, 9>>
Control == <<0, SETTINGS, 0>>
Datagrams == <<0, SETTINGS, 1, H3_DATAGRAM>>
Frame(ty, id) == <<ty, 1, id>>
Priority(id) == <<PRIORITY_UPDATE_REQUEST, 1, id>>

MCIds == {0, 4, 2, 6}

Scenario(is_server, legal, request, uni2, uni6) ==
    [is_server |-> is_server, legal |-> legal, datagrams |-> FALSE,
     tokens |-> (0 :> request) @@ (4 :> <<>>) @@ (2 :> uni2) @@ (6 :> uni6)]

\* Well formed requests and responses.
Requests == {Headers \o Data(<<60, 61>>), Headers \o Data(<<60>>) \o Grease \o Data(<<61>>),
             Headers \o Data(<<60>>) \o Data(<<61>>),
             Headers \o Data(<<60>>) \o Headers, Headers \o Data(<<>>),
             Headers \o <<DATA, 2, 60>>, Grease \o Headers, Headers \o <<33, 0>>}

Messages == {Scenario(b, TRUE, r, <<>>, <<>>) : b \in BOOLEAN, r \in Requests}

\* Two requests at a time.
Pairs == {[Scenario(TRUE, TRUE, Headers, <<>>, <<>>) EXCEPT !.tokens[4] = Headers]}

\* Critical, push and unknown streams.
Sides ==
    {Scenario(TRUE, TRUE, Headers, Control \o Priority(0) \o Priority(0), <<>>),
     Scenario(TRUE, TRUE, <<>>, Control \o Frame(MAX_PUSH, 1), <<2, 9>>),
     Scenario(FALSE, TRUE, <<>>, Control \o Frame(GOAWAY, 4) \o Frame(GOAWAY, 0), <<>>),
     Scenario(FALSE, TRUE, <<>>, Control, <<3, 9>>),
     Scenario(FALSE, TRUE, <<>>, <<1, 7>> \o Headers \o Data(<<60>>), <<>>),
     Scenario(FALSE, TRUE, Headers, <<33, 9>>, <<>>),
     [Scenario(TRUE, TRUE, <<>>, Datagrams, <<>>) EXCEPT !.datagrams = TRUE]}

\* One mistake of the peer in each.
Mistakes ==
    {Scenario(TRUE, FALSE, Data(<<60>>), <<>>, <<>>),
     Scenario(TRUE, FALSE, Headers \o Frame(SETTINGS, 0), <<>>, <<>>),
     Scenario(TRUE, FALSE, Headers \o <<PUSH_PROMISE, 1, 0>>, <<>>, <<>>),
     Scenario(TRUE, FALSE, <<>>, <<0>> \o Frame(GOAWAY, 0), <<>>),
     Scenario(TRUE, FALSE, <<>>, Control \o <<SETTINGS, 0>>, <<>>),
     Scenario(TRUE, FALSE, <<>>, Control \o Headers, <<>>),
     Scenario(TRUE, FALSE, <<>>, Control \o <<GOAWAY, 0>>, <<>>),
     Scenario(TRUE, FALSE, <<>>, Control \o Frame(MAX_PUSH, 1) \o Frame(MAX_PUSH, 0), <<>>),
     Scenario(TRUE, FALSE, <<>>, Control \o Priority(12), <<>>),
     Scenario(TRUE, FALSE, <<>>, Control, <<0, SETTINGS, 0>>),
     Scenario(TRUE, FALSE, <<>>, <<1, 7>>, <<>>),
     Scenario(TRUE, FALSE, <<>>, <<2, 9>>, <<2, 9>>),
     Scenario(FALSE, FALSE, <<>>, Control \o Frame(GOAWAY, 0) \o Frame(GOAWAY, 4), <<>>),
     Scenario(FALSE, FALSE, <<>>, Control \o Frame(GOAWAY, 3), <<>>),
     Scenario(FALSE, FALSE, <<>>, Control \o Priority(0), <<>>),
     Scenario(FALSE, FALSE, <<>>, <<1, 7>> \o Frame(GOAWAY, 0), <<>>),
     Scenario(TRUE, FALSE, <<>>, Datagrams, <<>>),
     Scenario(TRUE, FALSE, <<>>, <<0, SETTINGS, 1, Malformed>>, <<>>),
     Scenario(TRUE, FALSE, <<HEADERS, 1, Malformed>> \o Data(<<60>>), <<>>, <<>>),
     Scenario(TRUE, FALSE, <<HEADERS, 0>>, <<>>, <<>>),
     Scenario(TRUE, FALSE, <<>>, Control \o <<PRIORITY_UPDATE_REQUEST, 0>>, <<>>),
     Scenario(TRUE, FALSE, Headers \o <<33, 5, 1, 2, 3, 4, 5>>, <<>>, <<>>)}

MCScenarios == Messages \cup Pairs \cup Sides \cup Mistakes

\* An empty DATA frame in front of another frame.
EmptyData == {Scenario(TRUE, TRUE, Headers \o Data(<<>>) \o Data(<<60>>), <<>>, <<>>)}
=============================================================================

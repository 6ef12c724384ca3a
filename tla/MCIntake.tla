------------------------------ MODULE MCIntake ------------------------------
(***************************************************************************)
(* Values of Intake's constants for TLC.                                   *)
(***************************************************************************)
EXTENDS Intake, TLC

CONSTANTS u1, u2, b1, b2, profanity, politics

\* Texts with and without brackets, "=" and "RT @" in every order that matters.
Texts == {<<"w">>, <<"sp", "esc", "RT", "w">>, <<"w", "RT">>, <<"w", "=", "[", "]">>,
          <<"=", "sp", "[", "w", "]">>, <<"[", "w", "]">>, <<"=", "[", "w">>, <<"]", "=">>,
          <<"=", "esc", "[", "]">>}
Shorts == {<<"w">>, <<"RT">>, <<"=", "[", "]">>}
Tweets(id) ==
    {[id |-> id, full |-> full, short |-> <<>>] : full \in Texts}
    \cup {[id |-> id, full |-> <<>>, short |-> short] : short \in Shorts \cup {<<>>}}
    \cup {[id |-> id, full |-> <<"w">>, short |-> <<"RT">>]}

Plain(id) == [id |-> id, full |-> <<"w">>, short |-> <<>>]
TweetLists == {<<>>} \cup {<<t>> : t \in Tweets(b1)} \cup {<<Plain(b2), t>> : t \in Tweets(b1)}
Archives == [tweets : TweetLists, header : BOOLEAN, pretty : BOOLEAN]

NoField == [shape |-> "absent", given |-> [f \in {} |-> TRUE]]
Sent(kind, entries) ==
    [form |-> TRUE, file |-> [kind |-> kind, entries |-> entries], criteria |-> NoField]
Refused == [Sent("script", <<>>) EXCEPT !.form = FALSE]

Entry(name, archive) == [name |-> name, archive |-> archive]
Layout(ts) == [tweets |-> ts, header |-> TRUE, pretty |-> TRUE]
TheTweets == Entry("tweets", Layout(<<Plain(b1), Plain(b2)>>))
Headers == Entry("lookalike", Layout(<<Plain(b2)>>))
Account == Entry("other", Layout(<<>>))

Scripts == {Sent("script", <<Entry("tweets", a)>>) : a \in Archives}
Zips == {Sent("zip", es) : es \in {<<Account, TheTweets>>, <<TheTweets, Headers>>,
                                   <<Headers, TheTweets>>, <<Account>>}}

Chosen == [Sent("zip", <<TheTweets>>) EXCEPT
              !.criteria = [shape |-> "wrapped", given |-> [f \in {politics} |-> TRUE]]]

MCUpload == {u1, u2}
MCRequests == u1 :> Scripts @@ u2 :> Zips \cup {Sent("damaged", <<>>), Refused, Chosen}

\* One plain archive, with every form of the criteria field.
OneUpload == {u1}
Given == UNION {[fs -> BOOLEAN] : fs \in SUBSET {profanity, politics}}
CriteriaFields == {NoField} \cup [shape : {"wrapped", "direct"}, given : Given]
                  \cup [shape : {"mistyped", "broken"}, given : {NoField.given}]
CriteriaRequests ==
    u1 :> {[Sent("script", <<TheTweets>>) EXCEPT !.criteria = c] : c \in CriteriaFields}
MCField == {profanity, politics}
MCDefaultOn == {profanity}
=============================================================================

--------------------------- MODULE ArchiveParser ---------------------------
(***************************************************************************)
(* internal/tweets/parser: what ParseArchive finds in an uploaded file.    *)
(*                                                                         *)
(* A script is a sequence of tokens: "=", "[", "]", "sp" (a space), "nl"   *)
(* (a line break), "RT" (the characters "RT @"), "begin" and "end" (where  *)
(* a tweet's object begins and ends), "esc" (white space in a text that    *)
(* JSON escapes, as in "\n") and "w" for a run of any other characters, a  *)
(* string's name and quotes included.                                      *)
(* json.Unmarshal is modelled by the three outcomes it has on a part of    *)
(* such a script: all its tweets, no tweets, or an error.                  *)
(***************************************************************************)
EXTENDS Naturals, Sequences, FiniteSetsExt, SequencesExt

\* What ParseArchive and its parts return: tweets, or an error.
Success(ts) == [ok |-> TRUE, tweets |-> ts]
Failure == [ok |-> FALSE, tweets |-> <<>>]
White == {"sp", "nl"}      \* to the regular expression and in JSON
Blank == {"sp", "esc"}     \* to strings.TrimSpace

-----------------------------------------------------------------------------
(* What a client uploads *)

\* An archive [tweets, header, pretty]: its tweets [id, full, short], with or
\* without "window.YTD.tweets.part0 = " before the array, on one line or with
\* every string on a line of its own.  A line break in a text is escaped, and a
\* brace in one is no token of its own.
TextToken == {"=", "[", "]", "sp", "esc", "RT", "w"}
IsArchive(a) ==
    /\ a.tweets \in Seq(ToSet(a.tweets)) /\ a.header \in BOOLEAN /\ a.pretty \in BOOLEAN
    /\ \A i \in DOMAIN a.tweets : {a.tweets[i].full, a.tweets[i].short} \subseteq Seq(TextToken)

Line(part, a) == part \o (IF a.pretty THEN <<"nl">> ELSE <<>>)
String(text) == <<"w">> \o text \o <<"w">>
Object(t, a) == Line(<<"begin">>, a) \o Line(String(t.full), a) \o Line(String(t.short), a)
                  \o Line(<<"end">>, a)
Body(a) == FlattenSeq([i \in DOMAIN a.tweets |-> Object(a.tweets[i], a)])
Json(a) == Line(<<"[">>, a) \o Body(a) \o <<"]">>
Script(a) == (IF a.header THEN <<"w", "sp", "=", "sp">> ELSE <<>>) \o Json(a)

-----------------------------------------------------------------------------
(* extractJSONFromJS *)

\* The regular expression =\s*(\[.*\]): a "[" that only white space separates
\* from a "=" before it, up to the last "]" of the same line.
Openings(s) ==
    {q \in DOMAIN s : /\ s[q] = "["
                      /\ \E p \in 1 .. q - 1 :
                            s[p] = "=" /\ \A k \in p + 1 .. q - 1 : s[k] \in White}
Closings(s, q) ==
    {r \in q + 1 .. Len(s) : s[r] = "]" /\ \A k \in q + 1 .. r - 1 : s[k] # "nl"}

Positions(s, token) == {k \in DOMAIN s : s[k] = token}

\* The fallback: from the first "[" to the last "]".
ToFirstBracket(s) ==
    LET opening == Positions(s, "[")  closing == Positions(s, "]")
    IN  IF opening = {} \/ closing = {} \/ Min(closing) < Min(opening)
        THEN <<>> ELSE SubSeq(s, Min(opening), Min(closing))
FromBracketToBracket(s) ==
    LET opening == Positions(s, "[")  closing == Positions(s, "]")
    IN  IF opening = {} \/ closing = {} \/ Max(closing) < Min(opening)
        THEN <<>> ELSE SubSeq(s, Min(opening), Max(closing))

extractJSONFromJS(s) ==
    LET matching == {q \in Openings(s) : Closings(s, q) # {}}
    IN  IF matching # {}
        THEN SubSeq(s, Min(matching), Max(Closings(s, Min(matching))))
        ELSE FromBracketToBracket(s)

-----------------------------------------------------------------------------
(* parseJSContent *)

\* json.Unmarshal of a part of a's script.
EmptyArray(part) == SelectSeq(part, LAMBDA c : c \notin White) = <<"[", "]">>
Unmarshal(part, a) ==
    IF part = Json(a) THEN Success(a.tweets)
    ELSE IF EmptyArray(part) THEN Success(<<>>)
    ELSE Failure

TextOf(t) == IF t.full = <<>> THEN t.short ELSE t.full

\* strings.TrimSpace, then HasPrefix "RT @".
isRetweet(text) ==
    \E k \in DOMAIN text : text[k] = "RT" /\ \A l \in 1 .. k - 1 : text[l] \in Blank

convertToTweetRecord(t) == [id |-> t.id, text |-> TextOf(t)]

\* The tweets that are kept, as TweetRecords: the loop, one tweet at a time.
Originals(ts) ==
    LET kept[n \in 0 .. Len(ts)] ==
          IF n = 0 THEN <<>>
          ELSE IF isRetweet(TextOf(ts[n])) THEN kept[n - 1]
          ELSE Append(kept[n - 1], convertToTweetRecord(ts[n]))
    IN  kept[Len(ts)]

parseJSContent(a) ==
    LET json == extractJSONFromJS(Script(a))
        raw  == IF json = <<>> THEN Failure ELSE Unmarshal(json, a)
    IN  IF raw.ok THEN Success(Originals(raw.tweets)) ELSE Failure

-----------------------------------------------------------------------------
(* ParseArchive *)

\* A file [kind, entries]: a ZIP archive with its entries in order, one whose
\* directory cannot be read, or a script.  An entry [name, archive] is the
\* tweets' own file, one whose name resembles it (deleted-tweets.js,
\* tweet-headers.js), or any other.
Resembles(name) == name \in {"tweets", "lookalike"}

Found(f) == {k \in DOMAIN f.entries : Resembles(f.entries[k].name)}

\* The first entry whose name contains "tweet" and ends in ".js".
parseZIPArchive(f) ==
    IF f.kind = "damaged" \/ Found(f) = {} THEN Failure
    ELSE parseJSContent(f.entries[Min(Found(f))].archive)

parseDirectJSFile(f) == parseJSContent(f.entries[1].archive)

ParseArchive(f) == IF f.kind = "script" THEN parseDirectJSFile(f) ELSE parseZIPArchive(f)

-----------------------------------------------------------------------------
(* The reference: what a reader of the documentation expects *)

\* A text with "=" before a bracket, open or closed on the same line.
EqualsBracket(text) == Openings(text) # {}
EqualsArray(text) == \E q \in Openings(text) : Closings(text, q) # {}

\* The array is missed: in an archive of many lines by a text that contains
\* "= [...]", in one of one line without header by a text with "= [".
Misread(a) ==
    \E i \in DOMAIN a.tweets : \E text \in {a.tweets[i].full, a.tweets[i].short} :
       \/ a.pretty /\ EqualsArray(text)
       \/ ~a.pretty /\ ~a.header /\ EqualsBracket(text)

TweetFiles(f) == {k \in DOMAIN f.entries : f.entries[k].name = "tweets"}
Readable(f) == f.kind # "damaged" /\ TweetFiles(f) # {}
\* The entry the user means comes before every one that resembles it.
FirstIsMeant(f) == Min(Found(f)) \in TweetFiles(f)
Meant(f) == f.entries[Min(TweetFiles(f))].archive
=============================================================================

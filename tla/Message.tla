------------------------------- MODULE Message -------------------------------
(***************************************************************************)
(* The texts that come in and go out: util::splitString and the method     *)
(* names, HttpRequest and how handleRequestData fills it, HttpResponse and *)
(* what it looks like to a client.  A text is a sequence of symbols.  A    *)
(* symbol is a character, or a word whose characters the code never takes  *)
(* apart ("GET", "Content-Type"); lengths are counted in symbols.          *)
(***************************************************************************)
EXTENDS Naturals, SequencesExt

CONSTANTS Symbols,
          StatusMessages  \* the messages of getStatusMessage, a word for each code

Text == Seq(Symbols)
Eol == <<"CR", "LF">>
Methods == {"GET", "POST", "PUT", "DELETE"}
Digits == <<"0", "1", "2", "3", "4", "5", "6", "7", "8", "9">>

HttpStatusCode ==
    (100..103) \cup (200..208) \cup {226} \cup (300..305) \cup {307, 308}
    \cup (400..418) \cup (421..426) \cup {428, 429, 431, 451} \cup (500..508) \cup {510, 511}

(* What the server itself writes, or looks for.                              *)
ASSUME MessageAssumption ==
    Methods \cup {"CR", "LF", " ", "/", "HTTP/1.1", ": ", ", ", "Content-Type", "text/plain",
                  "Content-Length", "Allow", "Bad Request", "Not Found", "Method not allowed",
                  "Unknown Status"} \subseteq Symbols

ASSUME StatusAssumption ==
    /\ ToSet(Digits) \subseteq Symbols
    /\ StatusMessages \in [HttpStatusCode -> Symbols \ {"CR", "LF", " ", "Unknown Status"}]
    /\ IsInjective(StatusMessages)

(* std::string::find; 0 is npos.                                             *)
Find(text, what, from) ==
    LET found == {i \in from..(Len(text) + 1 - Len(what)) :
                     SubSeq(text, i, i + Len(what) - 1) = what}
    IN  IF found = {} THEN 0 ELSE Min(found)

(* getline gives no item for what follows the last delimiter if that is      *)
(* empty, but one for every two delimiters in a row.                         *)
Split(delimiter) ==
    LET split[rest \in Text] ==
            LET end == Find(rest, <<delimiter>>, 1) IN
            IF rest = <<>> THEN <<>>
            ELSE IF end = 0 THEN <<rest>>
            ELSE <<SubSeq(rest, 1, end - 1)>> \o split[SubSeq(rest, end + 1, Len(rest))]
    IN  split

splitString(str, delimiter) == Split(delimiter)[str]

(* map[key] = value, for a map of any of the kinds of the library.           *)
Put(map, key, value) ==
    [k \in DOMAIN map \cup {key} |-> IF k = key THEN value ELSE map[k]]

stringToHttpMethod(name) ==
    IF \E m \in Methods : name = <<m>> THEN name[1] ELSE "UNKNOWN"

-----------------------------------------------------------------------------
(* HttpRequest                                                               *)

NoRequest == [method |-> "HTTP_METHOD_MAX", uri |-> <<>>, args |-> <<>>,
              headers |-> <<>>, body |-> <<>>]

Requested(method, uri, headers, body) ==
    [NoRequest EXCEPT !.method = method, !.uri = uri, !.headers = headers, !.body = body]

setArg(request, name, value) == [request EXCEPT !.args = Put(@, name, value)]

getArg(request, name) ==
    IF name \in DOMAIN request.args THEN request.args[name] ELSE <<>>

(* The parts of the first line; none if no end of line has been received.    *)
RequestLine(data) == splitString(SubSeq(data, 1, Find(data, Eol, 1) - 1), " ")

(* "/a/" becomes "/a", and "/" the empty string.                             *)
StripSlash(uri) == IF uri # <<>> /\ Last(uri) = "/" THEN Front(uri) ELSE uri

(* Mutant: the headers end with the first of them.                           *)
HeaderEndFirst(requestPart) == Find(requestPart, Eol, 1)

HeaderEnd(requestPart) == Find(requestPart, Eol \o Eol, 1)

(* The blank line is looked for behind the first line only: without it, all  *)
(* that has been received counts as headers.                                 *)
ParseRequest(data) ==
    LET parts == RequestLine(data)
        requestPart == SubSeq(data, Find(data, Eol, 1) + 2, Len(data))
        headerEnd == HeaderEnd(requestPart)
    IN  Requested(stringToHttpMethod(parts[1]), StripSlash(parts[2]),
                  IF headerEnd = 0 THEN requestPart ELSE SubSeq(requestPart, 1, headerEnd - 1),
                  IF headerEnd = 0 THEN <<>>
                  ELSE SubSeq(requestPart, headerEnd + 4, Len(requestPart)))

-----------------------------------------------------------------------------
(* A message as clients write it: neither spaces nor ends of lines where the *)
(* one ends the method and the URI, the other every line of the head.        *)
IsMessage(message) ==
    /\ DOMAIN message = {"method", "uri", "headers", "body"}
    /\ message.method \in Symbols /\ message.method \notin {" ", "CR", "LF"}
    /\ message.uri \in Text /\ {" ", "CR", "LF"} \cap ToSet(message.uri) = {}
    /\ message.headers \in Seq(Text)
    /\ \A i \in DOMAIN message.headers :
          message.headers[i] # <<>> /\ {"CR", "LF"} \cap ToSet(message.headers[i]) = {}
    /\ message.body \in Text

(* What the client sends.                                                    *)
HeaderText(message) ==
    FlattenSeq([i \in DOMAIN message.headers |-> message.headers[i] \o Eol])

Composed(message) ==
    <<message.method, " ">> \o message.uri \o <<" ", "HTTP/1.1">> \o Eol
    \o HeaderText(message) \o Eol \o message.body

-----------------------------------------------------------------------------
(* HttpResponse                                                              *)

HttpResponse(statusCode, body, headers) ==
    [statusCode |-> statusCode, body |-> body,
     headers |-> IF "Content-Type" \in DOMAIN headers THEN headers
                 ELSE Put(headers, "Content-Type", <<"text/plain">>)]

setStatusCode(response, statusCode) == [response EXCEPT !.statusCode = statusCode]
setHeader(response, key, value) == [response EXCEPT !.headers = Put(@, key, value)]
setContentType(response, value) == setHeader(response, "Content-Type", value)
setBody(response, body) == [response EXCEPT !.body = body]
addBody(response, body) == [response EXCEPT !.body = @ \o body]

empty_render == HttpResponse(200, <<>>, <<>>)
createBadRequestResponse == HttpResponse(400, <<"Bad Request">>, <<>>)
createNotFoundResponse == HttpResponse(404, <<"Not Found">>, <<>>)
createMethodNotAllowed(allowedMethods) ==
    setHeader(HttpResponse(405, <<"Method not allowed">>, <<>>), "Allow", allowedMethods)

(* What the parameter, a uint16_t, makes of its argument.                    *)
Uint16(n) == n % 65536

getStatusMessage(statusCode) ==
    LET code == Uint16(statusCode)
    IN  IF code \in HttpStatusCode THEN StatusMessages[code] ELSE "Unknown Status"

(* What operator<< writes for a number.                                      *)
Decimal[n \in Nat] ==
    IF n < 10 THEN <<Digits[n + 1]>> ELSE Decimal[n \div 10] \o <<Digits[(n % 10) + 1]>>

StatusLine(response) ==
    <<"HTTP/1.1", " ">> \o Decimal[response.statusCode]
    \o <<" ", getStatusMessage(response.statusCode)>>
HeaderLine(response, name) == <<name, ": ">> \o response.headers[name]
LengthLine(response) == <<"Content-Length", ": ">> \o Decimal[Len(response.body)]

(* Mutant: the blank line goes out with a body only.                         *)
EndingNoBlankLine(response) ==
    IF response.body = <<>> THEN <<>>
    ELSE LengthLine(response) \o Eol \o Eol \o response.body

Ending(response) ==
    IF response.body = <<>> THEN Eol
    ELSE LengthLine(response) \o Eol \o Eol \o response.body

(* The headers come in the order "names" in which the loop visits the map.   *)
toString(response, names) ==
    StatusLine(response) \o Eol
    \o FlattenSeq([i \in DOMAIN names |-> HeaderLine(response, names[i]) \o Eol])
    \o Ending(response)

-----------------------------------------------------------------------------
(* What a client reads                                                       *)

(* The lines of a text, each with its end.                                   *)
Lines[text \in Text] ==
    LET end == Find(text, Eol, 1) IN
    IF end = 0 THEN <<>>
    ELSE <<SubSeq(text, 1, end - 1)>> \o Lines[SubSeq(text, end + 2, Len(text))]

(* The number that digits stand for.                                         *)
Numerals == Seq(ToSet(Digits))
ValueOf(digit) == CHOOSE d \in 0..9 : Digits[d + 1] = digit

Number[digits \in Numerals] ==
    IF digits = <<>> THEN 0 ELSE 10 * Number[Front(digits)] + ValueOf(Last(digits))
=============================================================================

------------------------------- MODULE Scanner ------------------------------
(***************************************************************************)
(* The scanner of rdpgen (scanner.c): consume_token turns characters into  *)
(* tokens.  Characters are reduced to the classes that the code tells      *)
(* apart; a step is one iteration of one of its loops.  The input is one   *)
(* stream of characters, as module CharStream promises.                    *)
(***************************************************************************)
EXTENDS Naturals, SequencesExt

CONSTANTS
  Texts,     \* the texts a file can have: sequences of characters
  Letters,   \* isalpha and the underscore
  Digits,    \* isdigit
  Spaces,    \* isspace, the newline included
  High,      \* the bytes above 0x7F, except 0xFF
  Others,    \* bytes that mean nothing outside strings, blocks and comments
  NL,        \* the newline
  EOF,       \* what get_char returns at the end; not a character
  Keyword,   \* the type of each known directive, by its text
  MaxCalls   \* bound: how often the parser calls consume_token

(* The byte 0xFF, which consume_token's switch takes for EOF, the byte 0,  *)
(* which C takes for the end of a string, and what encloses a text.        *)
FF == "0xFF"
NUL == "0x00"
Quote == "\""
LBrace == "{"
RBrace == "}"

(* What a file consists of.                                                *)
Bytes ==
  Letters \cup Digits \cup Spaces \cup High \cup Others
    \cup {FF, NUL, "#", ":", "%", Quote, LBrace, RBrace}

ASSUME ScannerAssumption ==
  /\ NL \in Spaces
  /\ MaxCalls \in Nat
  /\ Texts \subseteq Seq(Bytes) /\ EOF \notin Bytes
  /\ {FF, NUL, "#", ":", "%", Quote, LBrace, RBrace}
       \cap (Letters \cup Digits \cup Spaces \cup High) = {}
  /\ Letters \cap (Digits \cup Spaces \cup High) = {}
  /\ Digits \cap Spaces = {}
  /\ \A w \in DOMAIN Keyword :
       Keyword[w] \in {"VERBOSITY", "NAME", "PREFIX", "CODE"}

VARIABLES
  text,    \* the file
  rest,    \* what is left of it, the current character first
  tok,     \* _tok: its type and text so far
  pc,      \* the loop that consume_token is in; "idle" between calls
  count,   \* get_block's open braces
  tokens,  \* history: the tokens returned
  errors,  \* the count kept by errors.c
  alive    \* FALSE once the process has exited

vars == <<text, rest, tok, pc, count, tokens, errors, alive>>

Char(s) == IF s = <<>> THEN EOF ELSE Head(s)
Drop(s) == IF s = <<>> THEN s ELSE Tail(s)
ch == Char(rest)  \* get_char

(* IS_SYMBOL is a letter, IS_SYMBOL1 a letter or a digit.                  *)
IsSymbol1Letters(c) == c \in Letters
IsSymbol1(c) == c \in Letters \cup Digits

(* consume_char, and the current character added to the token's text.      *)
ConsumeChar == rest' = Drop(rest)
LeaveChar == UNCHANGED rest
KeepChar == tok' = [tok EXCEPT !.str = Append(@, ch)]

NoToken == [type |-> "none", str |-> <<>>]

(***************************************************************************)
(* What the parser looks at in a token: its text only where the type does  *)
(* not say all.                                                            *)
(***************************************************************************)
UnknownDirective == <<"%">>

AsToken(t) ==
  CASE t.type \in {"SYMBOL", "STRG", "NUMBER", "BLOCK"} -> t
    [] t.type = "ERROR" /\ t.str # <<>> -> [t EXCEPT !.str = UnknownDirective]
    [] OTHER -> [t EXCEPT !.str = <<>>]

Init ==
  /\ text \in Texts
  /\ rest = text
  /\ tok = NoToken
  /\ pc = "idle"
  /\ count = 0
  /\ tokens = <<>>
  /\ errors = 0
  /\ alive = TRUE

(* copy_str takes the text up to the first NUL.                            *)
CopyStrWhole(s) == s
CopyStr(s) ==
  LET nul == SelectInSeq(s, LAMBDA c : c = NUL)
  IN  IF nul = 0 THEN s ELSE SubSeq(s, 1, nul - 1)

(* consume_token returns a token of this type, with a copy of the text.    *)
Return(type) ==
  /\ tok' = [tok EXCEPT !.type = type]
  /\ tokens' = Append(tokens, [type |-> type, str |-> CopyStr(tok.str)])
  /\ pc' = "idle"

Working(loop) == alive /\ pc = loop

-----------------------------------------------------------------------------
(* consume_token is called: the text of the last token is cleared.         *)
Call ==
  /\ Working("idle")
  /\ Len(tokens) < MaxCalls
  /\ tok' = NoToken
  /\ pc' = "start"
  /\ UNCHANGED <<text, rest, count, tokens, errors, alive>>

SkipSpace ==
  /\ Working("start")
  /\ ch \in Spaces
  /\ ConsumeChar
  /\ UNCHANGED <<text, tok, pc, count, tokens, errors, alive>>

BeginComment ==
  /\ Working("start")
  /\ ch = "#"
  /\ ConsumeChar
  /\ pc' = "comment"
  /\ UNCHANGED <<text, tok, count, tokens, errors, alive>>

(* consume_comment runs to the newline; without one it runs for ever.      *)
SkipComment ==
  /\ Working("comment")
  /\ IF ch = NL THEN pc' = "start" /\ UNCHANGED rest
                ELSE ConsumeChar /\ UNCHANGED pc
  /\ UNCHANGED <<text, tok, count, tokens, errors, alive>>

IsEnd(c) == c \in {EOF, FF}

EndOfInput ==
  /\ Working("start")
  /\ IsEnd(ch)
  /\ Return("END_OF_INPUT")
  /\ UNCHANGED <<text, rest, count, errors, alive>>

GetColon ==
  /\ Working("start")
  /\ ch = ":"
  /\ ConsumeChar
  /\ Return("COLON")
  /\ UNCHANGED <<text, count, errors, alive>>

(* get_string and get_block drop the opening character, the others keep it *)
(* as the first of the token's text.                                       *)
BeginString ==
  /\ Working("start") /\ ch = Quote
  /\ ConsumeChar /\ pc' = "string"
  /\ UNCHANGED <<text, tok, count, tokens, errors, alive>>

BeginBlock ==
  /\ Working("start") /\ ch = LBrace
  /\ ConsumeChar /\ pc' = "block" /\ count' = 1
  /\ UNCHANGED <<text, tok, tokens, errors, alive>>

BeginWord ==
  /\ Working("start")
  /\ \/ ch = "%" /\ pc' = "directive"
     \/ ch \in Digits /\ pc' = "number"
     \/ ch \in Letters /\ pc' = "symbol"
  /\ KeepChar /\ ConsumeChar
  /\ UNCHANGED <<text, count, tokens, errors, alive>>

(* get_symbol, when the character starts no token: it is not consumed.     *)
Starters == Spaces \cup Letters \cup Digits \cup {"#", ":", "%", Quote, LBrace}

BadChar ==
  /\ Working("start")
  /\ ch \notin Starters /\ ~IsEnd(ch)
  /\ LeaveChar
  /\ errors' = errors + 1
  /\ Return("ERROR")
  /\ UNCHANGED <<text, count, alive>>

-----------------------------------------------------------------------------
(***************************************************************************)
(* check_eof, called after a character was consumed: two error reports and *)
(* the end of the process when the next one is above 0x7F, which EOF (-1)  *)
(* is not.                                                                 *)
(***************************************************************************)
CheckEofAtEnd(s) == IF s = <<>> THEN errors' = errors + 2 /\ alive' = FALSE
                                ELSE UNCHANGED <<errors, alive>>
CheckEof(s) ==
  IF Char(s) \in High \cup {FF}
  THEN errors' = errors + 2 /\ alive' = FALSE
  ELSE UNCHANGED <<errors, alive>>

ReadDirective ==
  /\ Working("directive")
  /\ ch \in Letters
  /\ KeepChar /\ ConsumeChar /\ CheckEof(rest')
  /\ UNCHANGED <<text, pc, count, tokens>>

EndDirective ==
  /\ Working("directive")
  /\ ch \notin Letters
  /\ IF tok.str \in DOMAIN Keyword
     THEN Return(Keyword[tok.str]) /\ UNCHANGED errors
     ELSE Return("ERROR") /\ errors' = errors + 1
  /\ UNCHANGED <<text, rest, count, alive>>

(***************************************************************************)
(* At the end of the file the loops of get_string and get_block go on      *)
(* appending EOF to the text.  Those bytes are not kept here: the loop     *)
(* spins, until OutOfMemory.                                               *)
(***************************************************************************)
ReadString ==
  /\ Working("string")
  /\ rest # <<>> /\ ch # Quote
  /\ KeepChar /\ ConsumeChar /\ CheckEof(rest')
  /\ UNCHANGED <<text, pc, count, tokens>>

EndString ==
  /\ Working("string")
  /\ ch = Quote
  /\ ConsumeChar
  /\ Return("STRG")
  /\ UNCHANGED <<text, count, errors, alive>>

ReadNumber ==
  /\ Working("number")
  /\ IF ch \in Digits THEN KeepChar /\ ConsumeChar /\ UNCHANGED <<pc, tokens>>
                      ELSE Return("NUMBER") /\ UNCHANGED rest
  /\ UNCHANGED <<text, count, errors, alive>>

ReadSymbol ==
  /\ Working("symbol")
  /\ IF IsSymbol1(ch) THEN KeepChar /\ ConsumeChar /\ UNCHANGED <<pc, tokens>>
                      ELSE Return("SYMBOL") /\ UNCHANGED rest
  /\ UNCHANGED <<text, count, errors, alive>>

DepthOfOne(c) == CASE c = LBrace -> count + 1
                   [] c = RBrace /\ count > 1 -> count - 1 [] OTHER -> count
Depth(c) == CASE c = LBrace -> count + 1
              [] c = RBrace -> count - 1 [] OTHER -> count

ReadBlock ==
  /\ Working("block")
  /\ rest # <<>>
  /\ count' = Depth(ch)
  /\ ConsumeChar
  /\ IF count' > 0 THEN KeepChar /\ UNCHANGED <<pc, tokens>>
                   ELSE Return("BLOCK")
  /\ UNCHANGED <<text, errors, alive>>

Spinning == pc \in {"string", "block"} /\ alive /\ rest = <<>>

Spin == Spinning /\ UNCHANGED vars

(* mem_alloc or mem_realloc fails: the process exits.                      *)
OutOfMemory ==
  /\ Spinning
  /\ alive' = FALSE
  /\ UNCHANGED <<text, rest, tok, pc, count, tokens, errors>>

-----------------------------------------------------------------------------
ScanStep ==
  \/ SkipSpace \/ BeginComment \/ SkipComment
  \/ EndOfInput \/ GetColon \/ BadChar
  \/ BeginString \/ BeginBlock \/ BeginWord
  \/ ReadDirective \/ EndDirective \/ ReadString \/ EndString
  \/ ReadNumber \/ ReadSymbol \/ ReadBlock \/ Spin

(* The parser stops calling, or the process has exited.                    *)
Rest == (pc = "idle" \/ ~alive) /\ UNCHANGED vars

Next == Call \/ ScanStep \/ OutOfMemory \/ Rest

Spec == Init /\ [][Next]_vars

(* A call of consume_token runs on; the caller need not call again.        *)
FairSpec == Spec /\ WF_vars(ScanStep)
=============================================================================

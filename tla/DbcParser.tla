------------------------------ MODULE DbcParser ------------------------------
(***************************************************************************)
(* parse of crates/embrig-dbc/src/parser.rs: a DBC file is read line by    *)
(* line into a network of messages.  A line is a record whose kind says    *)
(* what its first word is and whose other fields are what parse_bo,        *)
(* parse_spec, parse_factor and parse_val extract from the text;           *)
(* "malformed" stands for every line one of them rejects.                  *)
(***************************************************************************)
EXTENDS Integers, Sequences, FiniteSets, SequencesExt

CONSTANT Files   (* DBC files: sequences of lines                          *)

NoMessage == [id |-> -1]

VARIABLES
  pc,       (* "parse"; then "built", "running" or "failed"                *)
  file,     (* the lines                                                   *)
  line,     (* index of the next one                                       *)
  current,  (* the message SG_ lines are added to, -1 before the first BO_ *)
  network   (* Network::messages: from ids to messages                     *)

parserVars == <<pc, file, line, current, network>>

AtLine(kind) == pc = "parse" /\ line <= Len(file) /\ file[line].kind = kind
NextLine == line' = line + 1 /\ UNCHANGED <<pc, file>>

Put(f, key, value) ==
  [k \in DOMAIN f \cup {key} |-> IF k = key THEN value ELSE f[k]]

\* The first signal of that name, as the code's searches find it; 0 for none.
SignalIndex(message, name) ==
  LET found == {i \in DOMAIN message.signals : message.signals[i].name = name}
  IN  IF found = {} THEN 0 ELSE CHOOSE i \in found : \A j \in found : i <= j

\* Mutant: a message that is defined again keeps the signals it had.
ParseBoKeeps ==
  /\ AtLine("BO")
  /\ LET l == file[line]
     IN  network' = Put(network, l.id,
                        [id |-> l.id, name |-> l.name, dlc |-> l.dlc,
                         signals |-> IF l.id \in DOMAIN network
                                     THEN network[l.id].signals ELSE <<>>])
  /\ current' = file[line].id
  /\ NextLine

ParseBo ==
  /\ AtLine("BO")
  /\ LET l == file[line]
     IN  network' = Put(network, l.id,
                        [id |-> l.id, name |-> l.name, dlc |-> l.dlc, signals |-> <<>>])
  /\ current' = file[line].id
  /\ NextLine

ParseSg ==
  /\ AtLine("SG")
  /\ current # -1
  /\ network' = [network EXCEPT ![current].signals = Append(@, file[line].signal)]
  /\ NextLine
  /\ UNCHANGED current

\* A value table is added to, pair by pair; one for a message or a signal that
\* has not been read yet is ignored.
ParseVal ==
  /\ AtLine("VAL")
  /\ LET l == file[line]
         i == IF l.id \in DOMAIN network THEN SignalIndex(network[l.id], l.signal) ELSE 0
         Insert(table, pair) == Put(table, pair[1], pair[2])
     IN  network' = IF i = 0 THEN network
                    ELSE [network EXCEPT ![l.id].signals[i].table =
                            FoldLeft(Insert, @, l.pairs)]
  /\ NextLine
  /\ UNCHANGED current

\* Empty lines, comments, VERSION and the attribute lines.
SkipLine ==
  /\ AtLine("other")
  /\ NextLine
  /\ UNCHANGED <<current, network>>

\* A line nothing recognises, and a signal outside of any message.
ParseError ==
  /\ AtLine("malformed") \/ (AtLine("SG") /\ current = -1)
  /\ pc' = "failed"
  /\ UNCHANGED <<file, line, current, network>>

ParseLine == ParseBo \/ ParseSg \/ ParseVal \/ SkipLine \/ ParseError

InitParser ==
  /\ pc = "parse"
  /\ file \in Files
  /\ line = 1
  /\ current = -1
  /\ network = <<>>

-----------------------------------------------------------------------------
(* Properties.                                                             *)

Read == 1 .. line - 1
LastBo(id) ==
  LET found == {i \in Read : file[i].kind = "BO" /\ file[i].id = id}
  IN  IF found = {} THEN 0 ELSE CHOOSE i \in found : \A j \in found : j <= i

\* The lines of the definition that counts: from the last BO_ of the id to the
\* next BO_.
Body(id) ==
  {i \in Read : /\ file[i].kind = "SG"
                /\ LastBo(id) < i
                /\ \A j \in LastBo(id) + 1 .. i : file[j].kind # "BO"}
Place(id, at) == Cardinality({i \in Body(id) : i <= at})

\* The pairs for the signal of that place in the value lines behind its definition,
\* by line and place in the line.
Pairs(id, place, at) ==
  UNION {{l} \X DOMAIN file[l].pairs :
           l \in {k \in Read : /\ at < k
                               /\ file[k].kind = "VAL"
                               /\ file[k].id = id
                               /\ SignalIndex(network[id], file[k].signal) = place}}
PairAt(q) == file[q[1]].pairs[q[2]]
NotAfter(r, q) == r[1] < q[1] \/ (r[1] = q[1] /\ r[2] <= q[2])

\* A raw value has a symbol if a pair gives it one, and then that of the last pair.
TableIs(table, pairs) ==
  /\ DOMAIN table = {PairAt(q)[1] : q \in pairs}
  /\ \A q \in pairs :
       (\A r \in pairs : PairAt(r)[1] = PairAt(q)[1] => NotAfter(r, q))
         => table[PairAt(q)[1]] = PairAt(q)[2]

\* At every line the network is what the lines so far say: a message has the
\* signals of its last definition, each once and in the file's order, none of
\* another message, and a signal has the symbols that value lines behind it
\* give it, all of them and the last one where they disagree.
NetworkIsFile ==
  /\ DOMAIN network = {file[i].id : i \in {j \in Read : file[j].kind = "BO"}}
  /\ \A id \in DOMAIN network :
       LET m == network[id]
       IN  /\ m.name = file[LastBo(id)].name /\ m.dlc = file[LastBo(id)].dlc
           /\ Len(m.signals) = Cardinality(Body(id))
           /\ \A at \in Body(id) :
                LET s == m.signals[Place(id, at)]
                IN  /\ [s EXCEPT !.table = <<>>] = file[at].signal
                    /\ TableIs(s.table, Pairs(id, Place(id, at), at))
=============================================================================

------------------------------- MODULE Tools --------------------------------
(* The file programs: tar, which packs files into 512-byte blocks and unpacks *)
(* them again; tsort, which orders the nodes of a graph; and the filters comm, *)
(* join, split, sort, base64 and expr, each a function of what it reads.       *)
EXTENDS Integers, Sequences, FiniteSets, SequencesExt

CONSTANTS
    BLOCK_SIZE,     \* cells of a block (512 bytes in the code)
    COPY_BUF_SIZE,  \* cells of one read
    NAME_MAX,       \* cells of the name field
    Radix,          \* digits of a size field are octal in the code
    FieldWidth,     \* digits of a size field
    PackNames,      \* names of the files to pack, sequences of characters
    OldFile,        \* what a file that is already there holds
    PackLists,      \* lists of <<name, contents>> given to tar
    TokenLists,     \* the words tsort reads
    MAX_NODES, MAX_EDGES,
    LineLists,      \* lists of lines, each a number, for comm, join and sort
    TextInputs,     \* texts for split and base64, bytes; NewLine is one of them
    NewLine,
    WordBits        \* width of expr's integers

VARIABLES
    tl_use,     \* the program: "tar", "tsort" or "filter"
    pack_list,  \* tar: the files it was given, those done removed
    packed,     \* tar: the files that are in the archive, in order
    archive,    \* tar: the archive file
    arch_pos,   \* tar: the position of its descriptor
    phase,      \* tar: "create", "extract", "done" or "astray"
    unpacked,   \* tar: the files that exist after extraction, name to contents
    listed,     \* tar: names and sizes that a listing of the archive showed
    refused,    \* tar: names whose creation or writing failed
    ts,         \* tsort: nodes, edges, in-degrees, queue, nodes printed
    filtered    \* filter: the program, its input and its output

tl_vars == <<tl_use, pack_list, packed, archive, arch_pos, phase, listed, unpacked, refused, ts, filtered>>
tar_vars == <<pack_list, packed, archive, arch_pos, phase, listed, unpacked, refused>>

(* -------------------------------------------------------------------- tar *)
NUL == -1
write_octal_field(val) ==
    IF val = 0 THEN [i \in 1..FieldWidth |-> IF i = FieldWidth - 1 THEN 0 ELSE NUL]
    ELSE [i \in 1..FieldWidth |-> LET high == val \div Radix^(FieldWidth - i)
                                  IN IF high = 0 THEN NUL ELSE high % Radix]
parse_octal_field(field) ==
    FoldLeft(LAMBDA acc, d : IF acc.ended THEN acc
                             ELSE IF d = NUL THEN [acc EXCEPT !.ended = acc.val > 0]
                             ELSE [acc EXCEPT !.val = @ * Radix + d],
             [val |-> 0, ended |-> FALSE], field).val

\* A cell of the archive: a byte, or the part of a header that tells it apart
\* (its checksum is written and never read).
Cell(v) == [byte |-> v]
Zero == Cell(0)
Zeros(n) == [i \in 1..n |-> Zero]
Bytes(data) == [i \in 1..Len(data) |-> Cell(data[i])]
TarHeader(name, size) ==    \* new and to_block: one block
    <<[name |-> SubSeq(name, 1, IF Len(name) < NAME_MAX THEN Len(name) ELSE NAME_MAX - 1),
       size |-> write_octal_field(size)]>> \o Zeros(BLOCK_SIZE - 1)
AllZero(block) == \A i \in 1..Len(block) : block[i] = Zero    \* from_block
IsHeader(block) == "size" \in DOMAIN block[1]
\* A file already there is written over, not cut (the kernel's create flag never truncates).
Overlay(old, pos, cells) ==
    SubSeq(old, 1, pos) \o cells \o SubSeq(old, pos + Len(cells) + 1, Len(old))
Padding_Full(size) == BLOCK_SIZE - (size % BLOCK_SIZE)    \* Fault: a full last block is padded too.
Padding(size) == IF size % BLOCK_SIZE = 0 THEN 0 ELSE BLOCK_SIZE - (size % BLOCK_SIZE)
data_blocks(size) == ((size + BLOCK_SIZE - 1) \div BLOCK_SIZE) * BLOCK_SIZE

Append_to_archive(cells) ==
    /\ archive' = Overlay(archive, arch_pos, cells)
    /\ arch_pos' = arch_pos + Len(cells)
cmd_create_file ==
    /\ phase = "create" /\ pack_list # <<>>
    /\ LET f == Head(pack_list) IN
       /\ Append_to_archive(TarHeader(f[1], Len(f[2])) \o Bytes(f[2]) \o Zeros(Padding(Len(f[2]))))
       /\ packed' = Append(packed, f)
    /\ pack_list' = Tail(pack_list) /\ UNCHANGED <<phase, listed, unpacked, refused>>
cmd_create_skip ==    \* it cannot be opened
    /\ phase = "create" /\ pack_list # <<>>
    /\ pack_list' = Tail(pack_list) /\ UNCHANGED <<packed, archive, arch_pos, phase, listed, unpacked, refused>>
\* Two zero blocks end the archive; it is closed and opened again to be unpacked.
cmd_create_end ==
    /\ phase = "create" /\ pack_list = <<>>
    /\ archive' = Overlay(archive, arch_pos, Zeros(2 * BLOCK_SIZE))
    /\ arch_pos' = 0 /\ phase' = "list" /\ UNCHANGED <<pack_list, packed, listed, unpacked, refused>>

\* A read never goes past the end of the archive.
Forward(n) == IF arch_pos + n > Len(archive) THEN Len(archive) ELSE arch_pos + n
block_read == SubSeq(archive, arch_pos + 1, arch_pos + BLOCK_SIZE)
AtHeader == /\ phase \in {"list", "extract"} /\ Len(archive) >= arch_pos + BLOCK_SIZE
            /\ ~AllZero(block_read) /\ IsHeader(block_read)
hdr == block_read[1]
size_value == parse_octal_field(hdr.size)
AtEnd == Len(archive) < arch_pos + BLOCK_SIZE \/ AllZero(block_read)
cmd_list_entry ==
    /\ AtHeader /\ phase = "list"
    /\ listed' = Append(listed, <<hdr.name, size_value>>)
    /\ arch_pos' = Forward(BLOCK_SIZE + data_blocks(size_value))
    /\ UNCHANGED <<pack_list, packed, archive, phase, unpacked, refused>>
cmd_list_end ==
    /\ phase = "list" /\ AtEnd
    /\ phase' = "extract" /\ arch_pos' = 0 /\ UNCHANGED <<pack_list, packed, archive, listed, unpacked, refused>>
cmd_extract_end ==
    /\ phase = "extract" /\ AtEnd
    /\ phase' = "done" /\ UNCHANGED <<pack_list, packed, archive, arch_pos, listed, unpacked, refused>>
\* A block of a file's data is refused for a header: what follows depends on the data.
cmd_extract_astray ==
    /\ phase \in {"list", "extract"} /\ Len(archive) >= arch_pos + BLOCK_SIZE
    /\ ~AllZero(block_read) /\ ~IsHeader(block_read)
    /\ phase' = "astray" /\ UNCHANGED <<pack_list, packed, archive, arch_pos, listed, unpacked, refused>>
OldData(name) == IF name \in DOMAIN unpacked THEN unpacked[name] ELSE <<>>
PutFile(name, data) == [n \in DOMAIN unpacked \cup {name} |-> IF n = name THEN data ELSE unpacked[n]]
cmd_extract_file ==
    /\ AtHeader /\ phase = "extract"
    /\ LET size == size_value
           from == arch_pos + BLOCK_SIZE
           data == SubSeq(archive, from + 1, from + size)
       IN /\ unpacked' = PutFile(hdr.name, Overlay(OldData(hdr.name), 0, data))
          /\ arch_pos' = Forward(BLOCK_SIZE + size + Padding(size))
    /\ UNCHANGED <<pack_list, packed, archive, phase, listed, refused>>
cmd_extract_no_create ==    \* skip_bytes over the data
    /\ AtHeader /\ phase = "extract"
    /\ arch_pos' = Forward(BLOCK_SIZE + data_blocks(size_value))
    /\ refused' = refused \cup {hdr.name} /\ UNCHANGED <<pack_list, packed, archive, phase, listed, unpacked>>
\* The n-th write fails: the chunk has been read, what comes after it is not skipped.
cmd_extract_write_error(n) ==
    /\ AtHeader /\ phase = "extract" /\ (n - 1) * COPY_BUF_SIZE < size_value
    /\ LET size == size_value
           kept == (n - 1) * COPY_BUF_SIZE
           read == IF n * COPY_BUF_SIZE < size THEN n * COPY_BUF_SIZE ELSE size
           from == arch_pos + BLOCK_SIZE
       IN /\ unpacked' = PutFile(hdr.name, Overlay(OldData(hdr.name), 0, SubSeq(archive, from + 1, from + kept)))
          /\ arch_pos' = Forward(BLOCK_SIZE + read + Padding(size))
    /\ refused' = refused \cup {hdr.name} /\ UNCHANGED <<pack_list, packed, archive, phase, listed>>
Tar ==
    \/ cmd_create_file \/ cmd_create_skip \/ cmd_create_end \/ cmd_list_entry \/ cmd_list_end
    \/ cmd_extract_end \/ cmd_extract_astray \/ cmd_extract_file \/ cmd_extract_no_create
    \/ \E n \in 1..2 : cmd_extract_write_error(n)

(* ------------------------------------------------------------------ tsort *)
\* With the table full every further name is taken for the first node.
find_or_add_node(names, w) ==
    LET at == {i \in 1..Len(names) : names[i] = w}
    IN IF at # {} THEN [names |-> names, idx |-> CHOOSE i \in at : TRUE]
       ELSE IF Len(names) < MAX_NODES THEN [names |-> Append(names, w), idx |-> Len(names) + 1]
       ELSE [names |-> names, idx |-> 1]
\* Words are read in pairs; a last single word is left out.
AddPair(g, a, b) ==
    LET x == find_or_add_node(g.names, a)
        y == find_or_add_node(x.names, b)
    IN [names |-> y.names,
        edges |-> IF Len(g.edges) < MAX_EDGES THEN Append(g.edges, <<x.idx, y.idx>>) ELSE g.edges]
tokenize(words) == SubSeq(words, 1, IF Len(words) < MAX_EDGES THEN Len(words) ELSE MAX_EDGES)
ReadPairs(words) ==
    FoldLeft(LAMBDA g, k : AddPair(g, words[2 * k - 1], words[2 * k]),
             [names |-> <<>>, edges |-> <<>>], [k \in 1..(Len(words) \div 2) |-> k])
EdgesInto(edges, n) == Cardinality({e \in 1..Len(edges) : edges[e][2] = n})
tsort_begin(words) ==
    LET g == ReadPairs(tokenize(words))
        degree == [n \in 1..Len(g.names) |-> EdgesInto(g.edges, n)]
    IN [words |-> words, names |-> g.names, edges |-> g.edges, degree |-> degree,
        queue |-> SelectSeq([n \in 1..Len(g.names) |-> n], LAMBDA n : degree[n] = 0),
        printed |-> <<>>]
\* One edge of the node that was printed.
Relax(s, dest) ==
    IF s.degree[dest] = 0 THEN s
    ELSE [s EXCEPT !.degree[dest] = @ - 1,
                   !.queue = IF s.degree[dest] = 1 THEN Append(@, dest) ELSE @]
tsort_next ==
    /\ ts.queue # <<>>
    /\ LET node == Head(ts.queue)
           out == SelectSeq(ts.edges, LAMBDA e : e[1] = node)
       IN ts' = FoldLeft(LAMBDA s, e : Relax(s, e[2]),
                         [ts EXCEPT !.queue = Tail(@), !.printed = Append(@, node)], out)

(* ---------------------------------------------------------------- filters *)
MergeStep(s) ==    \* comm: one line of the merge of two lists that are in order
    LET a == s.left  b == s.right
    IN IF a = <<>> THEN [s EXCEPT !.right = Tail(b), !.second = Append(@, Head(b))]
       ELSE IF b = <<>> THEN [s EXCEPT !.left = Tail(a), !.first = Append(@, Head(a))]
       ELSE IF Head(a) < Head(b) THEN [s EXCEPT !.left = Tail(a), !.first = Append(@, Head(a))]
       ELSE IF Head(a) > Head(b) THEN [s EXCEPT !.right = Tail(b), !.second = Append(@, Head(b))]
       ELSE [s EXCEPT !.left = Tail(a), !.right = Tail(b), !.both = Append(@, Head(a))]
comm(a, b) ==
    FoldLeft(LAMBDA s, k : IF s.left = <<>> /\ s.right = <<>> THEN s ELSE MergeStep(s),
             [left |-> a, right |-> b, first |-> <<>>, second |-> <<>>, both |-> <<>>],
             [k \in 1..(Len(a) + Len(b)) |-> k])
\* join: a line is a key and a rest; equal keys are paired once, one line of each file.
get_field(line) == line \div 10
get_rest(line) == line % 10
JoinStep(s) ==
    LET a == s.left  b == s.right
    IN IF get_field(Head(a)) < get_field(Head(b)) THEN [s EXCEPT !.left = Tail(a)]
       ELSE IF get_field(Head(a)) > get_field(Head(b)) THEN [s EXCEPT !.right = Tail(b)]
       ELSE [s EXCEPT !.left = Tail(a), !.right = Tail(b),
                      !.out = Append(@, <<get_field(Head(a)), get_rest(Head(a)), get_rest(Head(b))>>)]
join(a, b) ==
    FoldLeft(LAMBDA s, k : IF s.left = <<>> \/ s.right = <<>> THEN s ELSE JoinStep(s),
             [left |-> a, right |-> b, out |-> <<>>], [k \in 1..(Len(a) + Len(b)) |-> k]).out
\* sort: a line goes before the lines that are greater, in the order it came.
sort(lines) ==
    FoldLeft(LAMBDA out, x : SelectSeq(out, LAMBDA y : y <= x) \o <<x>> \o SelectSeq(out, LAMBDA y : y > x),
             <<>>, lines)
\* split: pieces of n lines; a line keeps its newline, and what is left at the end
\* is a piece when it is not empty.
split(data, n) ==
    LET Piece(s) == [s EXCEPT !.pieces = Append(@, s.buf), !.buf = <<>>, !.count = 0]
        Take(s, x) == LET t == [s EXCEPT !.buf = Append(@, x),
                                         !.count = IF x = NewLine THEN @ + 1 ELSE @]
                      IN IF x = NewLine /\ t.count >= n THEN Piece(t) ELSE t
        last == FoldLeft(Take, [pieces |-> <<>>, buf |-> <<>>, count |-> 0], data)
    IN IF last.count + 1 >= n \/ last.buf # <<>> THEN Piece(last).pieces ELSE last.pieces

\* base64: three bytes are four characters of six bits; Pad stands for what is missing.
Pad == 64
Group(data, k) == LET at(i) == IF i <= Len(data) THEN data[i] ELSE 0
                  IN at(k) * 65536 + at(k + 1) * 256 + at(k + 2)
base64_encode(data) ==
    FlattenSeq([g \in 1..((Len(data) + 2) \div 3) |->
        LET k == 3 * g - 2
            t == Group(data, k)
        IN <<t \div 262144, (t \div 4096) % 64,
             IF k + 1 <= Len(data) THEN (t \div 64) % 64 ELSE Pad,
             IF k + 2 <= Len(data) THEN t % 64 ELSE Pad>>])
\* expr: a number is a sign and a magnitude; it is refused when the magnitude does
\* not fit, before the sign is looked at.
MaxInt == 2^(WordBits - 1) - 1
Wrap(v) == ((v + 2^(WordBits - 1)) % 2^WordBits) - 2^(WordBits - 1)
Parses(n) == n[2] <= MaxInt
parse_i64(n) == IF n[1] THEN -n[2] ELSE n[2]
Magnitude(v) == IF v < 0 THEN -v ELSE v
Quotient(a, b) == (IF (a < 0) = (b < 0) THEN 1 ELSE -1) * (Magnitude(a) \div Magnitude(b))
eval_binop(a, op, b) ==
    IF ~Parses(a) \/ ~Parses(b) \/ (op \in {"/", "%"} /\ b[2] = 0) THEN [ok |-> FALSE, val |-> 0]
    ELSE LET x == parse_i64(a)  y == parse_i64(b) IN
         [ok |-> TRUE, val |-> CASE op = "+" -> Wrap(x + y)
                                 [] op = "-" -> Wrap(x - y)
                                 [] op = "*" -> Wrap(x * y)
                                 [] op = "/" -> Quotient(x, y)
                                 [] op = "%" -> x - Quotient(x, y) * y]
Numbers == BOOLEAN \X (0..2^(WordBits - 1))

Sorted(s) == \A i \in 1..(Len(s) - 1) : s[i] <= s[i + 1]
RunFilter ==
    \/ \E a, b \in LineLists :
         /\ Sorted(a) /\ Sorted(b)
         /\ \/ filtered' = [prog |-> "comm", a |-> a, b |-> b, columns |-> comm(a, b)]
            \/ filtered' = [prog |-> "join", a |-> a, b |-> b, pairs |-> join(a, b)]
    \/ \E a \in LineLists : filtered' = [prog |-> "sort", a |-> a, lines |-> sort(a)]
    \/ \E data \in TextInputs :
         \/ \E n \in 1..2 : filtered' = [prog |-> "split", data |-> data, pieces |-> split(data, n)]
         \/ filtered' = [prog |-> "base64", data |-> data, chars |-> base64_encode(data)]
    \/ \E op \in {"+", "-", "*", "/", "%"}, a, b \in Numbers :
         filtered' = [prog |-> "expr", args |-> <<a, b>>, op |-> op, result |-> eval_binop(a, op, b)]

TlInit ==
    /\ tl_use \in {"tar", "tsort", "filter"}
    /\ pack_list \in (IF tl_use = "tar" THEN PackLists ELSE {<<>>})
    /\ archive \in (IF tl_use = "tar" THEN {<<>>, Bytes(OldFile)} ELSE {<<>>})
    /\ unpacked \in (IF tl_use = "tar"
                     THEN {[n \in S |-> Bytes(OldFile)] : S \in {{}, PackNames}} ELSE {<<>>})
    /\ packed = <<>> /\ arch_pos = 0 /\ listed = <<>> /\ refused = {}
    /\ phase = (IF tl_use = "tar" THEN "create" ELSE "done")
    /\ ts \in (IF tl_use = "tsort" THEN {tsort_begin(w) : w \in TokenLists} ELSE {tsort_begin(<<>>)})
    /\ filtered = [prog |-> "none"]
TlNext ==
    \/ tl_use = "tar" /\ Tar /\ UNCHANGED <<tl_use, ts, filtered>>
    \/ tl_use = "tsort" /\ tsort_next /\ UNCHANGED <<tl_use, tar_vars, filtered>>
    \/ tl_use = "filter" /\ filtered.prog = "none" /\ RunFilter /\ UNCHANGED <<tl_use, tar_vars, ts>>

(* ------------------------------------------------------------ properties *)
CutName(name) == TarHeader(name, 0)[1].name
\* What tar packed is what a listing shows and what unpacking writes, whatever the
\* sizes are, over an older and longer archive, and with files that could not be
\* read or created: a file holds the last packed contents of its (cut) name, ahead
\* of what was there before. Only a write that failed leads the reading astray.
UnpacksWhatWasPacked ==
    /\ phase \in {"extract", "done"} /\ tl_use = "tar" =>
         listed = [i \in 1..Len(packed) |-> <<CutName(packed[i][1]), Len(packed[i][2])>>]
    /\ phase = "done" => \A i \in 1..Len(packed) :
         LET name == CutName(packed[i][1])
             data == Bytes(packed[i][2])
         IN (name \notin refused /\ \A k \in (i + 1)..Len(packed) : CutName(packed[k][1]) # name) =>
              /\ name \in DOMAIN unpacked
              /\ SubSeq(unpacked[name], 1, Len(data)) = data
    /\ phase = "astray" => refused # {}

\* A set of nodes each of which has a predecessor in it lies on or behind a cycle.
Behind(S) == \A n \in S : \E e \in 1..Len(ts.edges) : ts.edges[e][2] = n /\ ts.edges[e][1] \in S
Place(n) == CHOOSE k \in 1..Len(ts.printed) : ts.printed[k] = n
Printed == {ts.printed[k] : k \in 1..Len(ts.printed)}
Times(x, s) == Cardinality({i \in 1..Len(s) : s[i] = x})
Fewer(m, n) == IF m < n THEN m ELSE n
\* Byte i of what four characters of six bits each stand for.
ByteOf(chars, i) ==
    LET g == 4 * ((i - 1) \div 3)
        digit(k) == IF chars[g + k] = Pad THEN 0 ELSE chars[g + k]
        n == digit(1) * 64^3 + digit(2) * 64^2 + digit(3) * 64 + digit(4)
    IN (n \div 256^(2 - ((i - 1) % 3))) % 256
\* tsort prints a node once and after all its predecessors, and in the end every
\* node but those on or behind a cycle. comm's columns are what is in one list, in
\* the other and in both, counted; join pairs the keys of both; sort orders; the
\* pieces of split make its input; base64's characters stand for the bytes; expr's results fit.
ToolsAnswerRight ==
    /\ \A n \in Printed : /\ Times(n, ts.printed) = 1
                           /\ \A e \in 1..Len(ts.edges) : ts.edges[e][2] = n =>
                                ts.edges[e][1] \in Printed /\ Place(ts.edges[e][1]) < Place(n)
    /\ ts.queue = <<>> => LET nodes == 1..Len(ts.names)
                          IN Printed = nodes \ UNION {S \in SUBSET nodes : Behind(S)}
    /\ LET f == filtered IN
       /\ f.prog = "comm" => \A x \in {f.a[i] : i \in 1..Len(f.a)} \cup {f.b[i] : i \in 1..Len(f.b)} :
            LET m == Fewer(Times(x, f.a), Times(x, f.b))
            IN /\ Times(x, f.columns.both) = m
               /\ Times(x, f.columns.first) = Times(x, f.a) - m
               /\ Times(x, f.columns.second) = Times(x, f.b) - m
       /\ f.prog = "join" /\
            (\A s \in {f.a, f.b} : \A i, j \in 1..Len(s) : i # j => get_field(s[i]) # get_field(s[j])) =>
            {f.pairs[i] : i \in 1..Len(f.pairs)} =
            {<<get_field(f.a[q[1]]), get_rest(f.a[q[1]]), get_rest(f.b[q[2]])>> :
               q \in {r \in (1..Len(f.a)) \X (1..Len(f.b)) : get_field(f.a[r[1]]) = get_field(f.b[r[2]])}}
       /\ f.prog = "sort" => Sorted(f.lines) /\ \A x \in {f.a[i] : i \in 1..Len(f.a)} : Times(x, f.lines) = Times(x, f.a)
       /\ f.prog = "split" => FlattenSeq(f.pieces) = f.data
       /\ f.prog = "base64" => \A i \in 1..Len(f.data) : f.data[i] = ByteOf(f.chars, i)
       /\ f.prog = "expr" /\ f.result.ok => f.result.val = Wrap(f.result.val)

\* The file programs: archives and filters give what their definitions say.
ToolsSound == UnpacksWhatWasPacked /\ ToolsAnswerRight
=============================================================================

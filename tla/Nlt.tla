-------------------------------- MODULE Nlt --------------------------------
(***************************************************************************)
(* The translation tables of NeoDOS: the compiler nltc, the table format   *)
(* and its helpers in libnlt, and the tables a program keeps (libneodos    *)
(* i18n).  A text is a sequence of characters, a file is a header record   *)
(* and a body of cells: a cell is one byte of UTF-8, one unit of UTF-16 or *)
(* one 32-bit field of the index.  Offsets count cells from zero.          *)
(*                                                                         *)
(* "table": a catalogue is compiled, its file is perhaps damaged, and read *)
(* back.  "i18n": a program loads, unloads and reloads tables while the    *)
(* language changes.  "text": the formatting helpers.                      *)
(***************************************************************************)
EXTENDS Integers, Sequences, FiniteSets, SequencesExt

CONSTANTS Workloads, Sources, Tags, WINDOW_SIZE, MAX_MATCH, MAX_REL, MAX_FILE,
          MAX_TABLES, MAX_RUNS, MAX_RUN_CHARS, FMT_LEN, Counts, Amounts, Parts,
          MaxOps

VARIABLES load,    \* the workload, fixed by Init
          file,    \* "table": the compiled file and what it was made from
          disk,    \* "i18n": the files under System\Locale, by app and tag
          lang,    \* LANG_BUF
          tables,  \* NLT_NAMES, NLT_DATA, NLT_ENTRIES, NLT_LANG, NLT_COUNT
          res,     \* what the last call answered
          steps

vars == <<load, file, disk, lang, tables, res, steps>>

None == [none |-> TRUE]
Some(x) == [none |-> FALSE, it |-> x]
The(S) == CHOOSE x \in S : TRUE
(* FoldLeft and FlattenSeq as recursive functions, payloads being long. *)
Fold(op(_, _), base, s) ==
  LET f[k \in 0..Len(s)] == IF k = 0 THEN base ELSE The({op(a, s[k]) : a \in {f[k - 1]}})
  IN f[Len(s)]
Joined(op(_, _), s) ==
  LET f[a \in 1..Len(s), b \in 1..Len(s)] ==
        IF a = b THEN s[a] ELSE op(f[a, (a + b) \div 2], f[(a + b) \div 2 + 1, b])
  IN f[1, Len(s)]
Concat(ss) == IF ss = <<>> THEN <<>> ELSE Joined(LAMBDA a, b : a \o b, ss)
Each(f(_), s) == [i \in 1..Len(s) |-> f(s[i])]
Cut(s, cap) == SubSeq(s, 1, IF Len(s) < cap THEN Len(s) ELSE cap)
At(p, k) == p[k + 1]
Upto(n) == [i \in 1..n |-> i]
Put(p, k, cells) ==
  [j \in 1..Len(p) |-> IF j \in (k + 1)..(k + Len(cells)) THEN cells[j - k] ELSE p[j]]

-----------------------------------------------------------------------------
(* Languages. *)

en == <<"en", "US">>
LangId == (en :> 1) @@ (<<"pt", "PT">> :> 6) @@ (<<"pt", "BR">> :> 7)
          @@ (<<"en", "GB">> :> 11) @@ (<<"ru", "RU">> :> 14) @@ (<<"ar", "SA">> :> 15)
lang_to_id(tag) == IF tag \in DOMAIN LangId THEN LangId[tag] ELSE 32768
id_to_lang(id) ==
  IF \E t \in DOMAIN LangId : LangId[t] = id
  THEN CHOOSE t \in DOMAIN LangId : LangId[t] = id
  ELSE <<"unknown", "">>
is_rtl(id) == id = 15

canonical_for_language(l) ==
  LET C == ("en" :> en) @@ ("pt" :> <<"pt", "PT">>) @@ ("ru" :> <<"ru", "RU">>)
           @@ ("ar" :> <<"ar", "SA">>)
  IN IF l \in DOMAIN C THEN Some(C[l]) ELSE None

(* Mutant: the language's usual region is never tried. *)
NoCanonical(tag) ==
  Fold(LAMBDA buf, c : IF c \in Range(buf) THEN buf ELSE Append(buf, c),
           <<>>, <<tag, <<tag[1], "">>, en>>)
fallback_chain(tag) ==
  LET only == <<tag[1], "">>
      canonical == LET c == canonical_for_language(tag[1])
                   IN IF c.none THEN id_to_lang(lang_to_id(only)) ELSE c.it
  IN Fold(LAMBDA buf, c : IF c = <<"unknown", "">> \/ c \in Range(buf)
                              THEN buf ELSE Append(buf, c),
              <<>>, <<tag, only, canonical, en>>)

-----------------------------------------------------------------------------
(* Characters.  Nine is one outside the 16-bit plane. *)

ASTRAL == 9
put_utf8(c) == IF c = ASTRAL THEN <<91, 92>> ELSE <<c>>
UTF8(text) == Concat(Each(put_utf8, text))
UTF16(text) == Concat(Each(LAMBDA c : IF c = ASTRAL THEN <<55, 56>> ELSE <<c>>, text))
encode_str(text, utf16) == (IF utf16 THEN UTF16(text) ELSE UTF8(text)) \o <<0>>

(* transcode_one: one NUL-terminated UTF-16 text; None when a surrogate has *)
(* no partner or the payload ends first.                                    *)
Lone(u, k) == \/ u[k] = 55 /\ (k = Len(u) \/ u[k + 1] # 56)
              \/ u[k] = 56 /\ (k = 1 \/ u[k - 1] # 55)
FromUnits(u) ==
  IF \E k \in DOMAIN u : Lone(u, k) THEN None
  ELSE Some(Concat([k \in 1..Len(u) |-> IF u[k] = 56 THEN <<>>
                                        ELSE put_utf8(IF u[k] = 55 THEN ASTRAL ELSE u[k])]))
str_at(p, off) ==
  IF \A k \in off..(Len(p) - 1) : At(p, k) # 0 THEN None
  ELSE Some(SubSeq(p, off + 1, Min({k \in off..(Len(p) - 1) : At(p, k) = 0})))
transcode_one(p, start) ==
  The({IF u.none THEN None ELSE FromUnits(u.it) : u \in {str_at(p, start)}})

-----------------------------------------------------------------------------
(* nltc: from a catalogue to entries. *)

ZERO == 0
ONE == 1
TWO == 2
FEW == 3
MANY == 4
ELSE_FORM == 5
PLURAL_CATEGORIES == 6

Names(s) == SetToSortSeq(DOMAIN s.strings, <) \o SetToSortSeq(DOMAIN s.plural, <)
HasIds(s) == DOMAIN s.ids # {}
Place(seq, x) == CHOOSE k \in DOMAIN seq : seq[k] = x
Forms(f) == [c \in 0..ELSE_FORM |-> IF c \in DOMAIN f THEN f[c] ELSE <<>>]
NamedEntry(s, k, n) ==
  [id |-> IF HasIds(s) THEN s.ids[n] ELSE 1000 + k,
   plural |-> k > Cardinality(DOMAIN s.strings),
   forms |-> IF k <= Cardinality(DOMAIN s.strings) THEN [c \in {0} |-> s.strings[n]]
             ELSE Forms(s.plural[n])]
EntryOf(s, k) == NamedEntry(s, k, Names(s)[k])

(* Mutant: the entries stay in the order of their names. *)
NamesOrder(E) == E
SortById(E) == SortSeq(E, LAMBDA a, b : a.id < b.id)
Refused(s, E) ==
  \/ HasIds(s) /\ DOMAIN s.ids # Range(Names(s))
  \/ \E p \in DOMAIN s.plural : ~ DOMAIN s.plural[p] \subseteq 0..ELSE_FORM
  \/ \E p \in DOMAIN s.plural : Forms(s.plural[p])[ELSE_FORM] = <<>>
  \/ \E i, j \in DOMAIN E : i # j /\ E[i].id = E[j].id
  \/ E = <<>>
compile(s) ==
  The({IF Refused(s, E) THEN None ELSE Some(SortById(E)) :
         E \in {[k \in 1..Len(Names(s)) |-> EntryOf(s, k)]}})

(* catalog_id_map: what the generated keys and constants take the ids to be. *)
catalog_id_map(s) ==
  IF HasIds(s) THEN s.ids
  ELSE LET N == SetToSortSeq(Range(Names(s)), <)
       IN [n \in Range(N) |-> 1000 + Place(N, n)]

cmd_require_ids(s) == ~ compile(s).none /\ HasIds(s)

CoverageBase(S) == IF \E s \in S : s.lang = en THEN en ELSE (CHOOSE s \in S : TRUE).lang
cmd_check_coverage(S) ==
  \A b \in {s \in S : s.lang = CoverageBase(S)}, l \in {s.lang : s \in S} :
    \E s \in S : s.lang = l /\ s.app = b.app /\ catalog_id_map(s) = catalog_id_map(b)

(* generate_keymap: the keys of one locale directory, sorted; a key is its *)
(* rank, the application first.                                            *)
KeyOf(app, n) == 100 * app + n
cmd_generate_keymap(S) ==
  LET K == UNION {{<<KeyOf(s.app, n), catalog_id_map(s)[n]>> : n \in DOMAIN catalog_id_map(s)} : s \in S}
  IN SetToSortSeq(K, LAMBDA a, b : a[1] < b[1])

find_const(map, key) ==
  Fold(LAMBDA r, x :
      IF ~ r.found.none \/ r.lo >= r.hi THEN r
      ELSE The({IF At(map, mid)[1] = key THEN [r EXCEPT !.found = Some(At(map, mid)[2])]
                ELSE IF At(map, mid)[1] < key THEN [r EXCEPT !.lo = mid + 1]
                ELSE [r EXCEPT !.hi = mid] : mid \in {r.lo + ((r.hi - r.lo) \div 2)}}),
    [lo |-> 0, hi |-> Len(map), found |-> None], Upto(Len(map))).found

-----------------------------------------------------------------------------
(* The payload: an index sorted by id, then the texts. *)

ENTRY_V3_SIZE == 3
ENTRY_V2_SIZE == 2
write_index_v3(p, i, id, off, flags) == Put(p, i * ENTRY_V3_SIZE, <<id, off, flags>>)

(* Mutant: the offsets of a plural group are taken from the payload's start. *)
OffsetFromStart(out, forms, utf16, c) ==
  Len(out) + 1 + PLURAL_CATEGORIES
  + Len(Concat([d \in 1..c |-> encode_str(forms[d - 1], utf16)]))
FormOffset(out, forms, utf16, c) ==
  1 + PLURAL_CATEGORIES
  + Len(Concat([d \in 1..c |-> encode_str(forms[d - 1], utf16)]))
PutGroup(out, forms, utf16) ==
  The({IF \E c \in DOMAIN rel : rel[c] > MAX_REL THEN None
       ELSE Some(out \o <<PLURAL_CATEGORIES>> \o rel
                 \o Concat([c \in 1..PLURAL_CATEGORIES |-> encode_str(forms[c - 1], utf16)])) :
       rel \in {[c \in 1..PLURAL_CATEGORIES |-> FormOffset(out, forms, utf16, c - 1)]}})

Grown(out, e, utf16) ==
  IF e.plural THEN PutGroup(out, e.forms, utf16) ELSE Some(out \o encode_str(e.forms[0], utf16))
PutEntry(out, i, e, utf16) ==
  The({IF g.none THEN None
       ELSE Some(write_index_v3(g.it, i, e.id, Len(out), IF e.plural THEN 1 ELSE 0)) :
       g \in {Grown(out, e, utf16)}})
build_payload(E, utf16) ==
  Fold(LAMBDA acc, i : IF acc.none THEN acc ELSE PutEntry(acc.it, i - 1, E[i], utf16),
           Some([k \in 1..(Len(E) * ENTRY_V3_SIZE) |-> 0]), Upto(Len(E)))

(* crc32: a checksum that tells a payload from one with a changed cell. *)
crc32(p) == Joined(+, [k \in 1..(Len(p) + 1) |-> IF k > Len(p) THEN 1 ELSE (31 * k + 7) * p[k]]) % 32749

-----------------------------------------------------------------------------
(* LZSS.  Eight tokens to a flag cell, most significant first; a literal is *)
(* one cell, a match two: its offset in the window and its length less      *)
(* three.                                                                   *)

MIN_MATCH == 3
hash3(p, k) == (16 * At(p, k + 1) + At(p, k + 2)) % 256
Candidates(p, i) ==
  {c \in 0..(i - 1) : c + MIN_MATCH <= Len(p) /\ hash3(p, c) = hash3(p, i)}
MatchLen(p, c, i) ==
  LET top == IF Len(p) - i < MAX_MATCH THEN Len(p) - i ELSE MAX_MATCH
  IN Max({l \in 0..top : \A k \in 0..(l - 1) : At(p, c + k) = At(p, i + k)})
Matches(p, i) ==
  IF i + MIN_MATCH > Len(p) THEN {}
  ELSE {m \in {<<MatchLen(p, c, i), c>> : c \in Candidates(p, i)} : m[1] >= MIN_MATCH}
Longest(M) == CHOOSE m \in M : \A x \in M : x[1] < m[1] \/ (x[1] = m[1] /\ x[2] <= m[2])
TokenAt(p, i, M) ==
  IF M = {} THEN [next |-> i + 1, token |-> <<At(p, i)>>]
  ELSE [next |-> i + Longest(M)[1],
        token |-> <<(i - Longest(M)[2]) % WINDOW_SIZE, Longest(M)[1] - MIN_MATCH>>]
Tokens(p) ==
  LET from[i \in 0..Len(p)] ==
        IF i = Len(p) THEN <<>>
        ELSE The({<<t.token>> \o from[t.next] : t \in {TokenAt(p, i, M) : M \in {Matches(p, i)}}})
  IN from[0]

(* The groups of eight tokens, each with its flag cell. *)
Group(T, g) == SubSeq(T, 8 * g - 7, IF 8 * g < Len(T) THEN 8 * g ELSE Len(T))
FlagOf(G) == Fold(+, 0, [k \in 1..Len(G) |-> IF Len(G[k]) = 1 THEN 2 ^ (8 - k) ELSE 0])
Packed(T) ==
  Concat([g \in 1..((Len(T) + 7) \div 8) |-> <<FlagOf(Group(T, g))>> \o Concat(Group(T, g))])
compress(p) == The({Packed(T) : T \in {Tokens(p)}})

(* Mutant: a match may not reach into the text it produces itself. *)
CopyWithoutOverlap(out, off, len) ==
  IF off = 0 \/ off > Len(out) \/ Len(out) + len > MAX_FILE THEN None
  ELSE Some(out \o [k \in 1..len |-> IF k <= off THEN out[Len(out) - off + k] ELSE 0])
CopyMatch(out, off, len) ==
  IF off = 0 \/ off > Len(out) \/ Len(out) + len > MAX_FILE THEN None
  ELSE Some(Fold(LAMBDA o, k : Append(o, o[Len(o) - off + 1]), out, Upto(len)))

(* decompress, one flag cell and its tokens at a time; src[i + 1] is the     *)
(* flag cell, Start(src, i, b) the place of the token with bit b.            *)
Literal(flag, b) == (flag \div 2 ^ (8 - b)) % 2 = 1
Start(src, i, b) == i + b + Cardinality({c \in 1..(b - 1) : ~ Literal(src[i + 1], c)})
TakeToken(src, i, out, b) ==
  The({IF k >= Len(src) THEN Some(out)
       ELSE IF Literal(src[i + 1], b)
            THEN IF Len(out) >= MAX_FILE THEN None ELSE Some(Append(out, At(src, k)))
       ELSE IF k + 1 >= Len(src) THEN None
       ELSE CopyMatch(out, At(src, k), (At(src, k + 1) % 16) + MIN_MATCH) :
       k \in {Start(src, i, b)}})
TakeGroup(src, i, out) ==
  Fold(LAMBDA o, b : IF o.none THEN None ELSE TakeToken(src, i, o.it, b), Some(out), Upto(8))
decompress(src) ==
  LET from[i \in 0..Len(src)] ==
        IF i = 0 THEN [at |-> 0, out |-> Some(<<>>)]
        ELSE The({IF r.out.none \/ r.at >= Len(src) THEN r
                  ELSE [at |-> Start(src, r.at, 9), out |-> TakeGroup(src, r.at, r.out.it)] :
                  r \in {from[i - 1]}})
  IN from[(Len(src) + 8) \div 9].out

-----------------------------------------------------------------------------
(* Region blocks. *)

FIELDS == <<"decimal", "thousands", "currency", "date_short", "date_long", "time">>
RegionFlags(g) == (IF g.time_24h THEN 1 ELSE 0) + (IF g.currency_before THEN 2 ELSE 0)
                  + (IF g.group_thousands THEN 4 ELSE 0)
encode_region(g) ==
  <<1, RegionFlags(g)>> \o Concat([k \in 1..Len(FIELDS) |-> g.fields[k] \o <<0>>])
RegionOf(d, zero) ==
  [fields |-> [k \in 1..Len(FIELDS) |-> SubSeq(d, IF k = 1 THEN 3 ELSE zero[k - 1] + 1, zero[k] - 1)],
   time_24h |-> d[2] % 2 = 1, currency_before |-> (d[2] \div 2) % 2 = 1,
   group_thousands |-> (d[2] \div 4) % 2 = 1]
parse_region(d) ==
  The({IF Len(d) < 2 \/ Len(zero) < Len(FIELDS) THEN None
       ELSE IF d[1] # 1 THEN None ELSE Some(RegionOf(d, zero)) :
       zero \in {SelectSeq(Upto(Len(d)), LAMBDA k : k > 2 /\ d[k] = 0)}})

-----------------------------------------------------------------------------
(* The file. *)

Assembled(s, opts, E, P, stored, region) ==
  LET body == stored \o region
      small == stored # P
  IN [magic |-> "NLT3", language_id |-> lang_to_id(s.lang), entry_count |-> Len(E),
      flags |-> {x \in {"utf16"} : opts.utf16} \cup {x \in {"compressed"} : small}
                \cup {x \in {"region"} : region # <<>>} \cup {x \in {"signed"} : opts.sign}
                \cup {x \in {"rtl"} : is_rtl(lang_to_id(s.lang))},
      payload_size |-> Len(P), payload_stored |-> Len(stored), payload_crc32 |-> crc32(P),
      region_offset |-> IF region = <<>> THEN 0 ELSE Len(stored), region_size |-> Len(region),
      signature_offset |-> IF opts.sign THEN Len(body) ELSE 0,
      signature_size |-> IF opts.sign THEN 1 ELSE 0,
      body |-> IF opts.sign THEN Append(body, crc32(body)) ELSE body]
Stored(P, opts) ==
  IF ~ opts.compress THEN P ELSE The({IF Len(z) < Len(P) THEN z ELSE P : z \in {compress(P)}})
WithEntries(s, opts, E) ==
  The({IF P.none THEN None
       ELSE Some(The({Assembled(s, opts, E, P.it, stored, IF s.region.none THEN <<>> ELSE encode_region(s.region.it)) :
                        stored \in {Stored(P.it, opts)}})) :
       P \in {build_payload(E, opts.utf16)}})
build_nlt(s, opts) ==
  The({IF E.none THEN None ELSE WithEntries(s, opts, E.it) : E \in {compile(s)}})

parse_header(f) ==
  IF f.magic = "NLT2"
  THEN IF f.entry_count * ENTRY_V2_SIZE > Len(f.body) THEN None
       ELSE Some([f EXCEPT !.flags = {}, !.payload_size = f.entry_count * ENTRY_V2_SIZE,
                           !.payload_stored = f.entry_count * ENTRY_V2_SIZE, !.region_size = 0])
  ELSE IF \/ f.entry_count * ENTRY_V3_SIZE > f.payload_size
          \/ f.payload_stored > Len(f.body)
          \/ f.region_size > 0 /\ f.region_offset + f.region_size > Len(f.body)
          \/ f.signature_size > 0 /\ f.signature_offset + f.signature_size > Len(f.body)
       THEN None
       ELSE Some(f)

read_index(p, version, i) ==
  LET size == IF version = "NLT3" THEN ENTRY_V3_SIZE ELSE ENTRY_V2_SIZE
  IN IF (i + 1) * size > Len(p) THEN None
     ELSE Some([id |-> At(p, i * size), off |-> At(p, i * size + 1),
                plural |-> version = "NLT3" /\ At(p, i * size + 2) = 1])

(* rewrite_index_utf16: the texts are packed one after the other. *)
PackOne(acc, p, off) ==
  The({IF t.none THEN None ELSE Some(acc \o t.it) : t \in {transcode_one(p, off)}})
PackForm(acc, o, p, base, c) ==
  The({IF t.none \/ Len(o) - Len(acc) > 255 THEN None
       ELSE Some(Put(t.it, Len(acc) + c, <<Len(o) - Len(acc)>>)) :
       t \in {PackOne(o, p, base + At(p, base + c))}})
PackGroup(acc, p, base) ==
  Fold(LAMBDA o, c : IF o.none THEN None ELSE PackForm(acc, o.it, p, base, c),
           Some(acc \o [k \in 1..(At(p, base) + 1) |-> IF k = 1 THEN At(p, base) ELSE 0]),
           Upto(At(p, base)))
PackEntry(acc, p, i, e) ==
  The({IF t.none THEN None
       ELSE Some(write_index_v3(t.it, i, e.id, Len(acc), IF e.plural THEN 1 ELSE 0)) :
       t \in {IF e.plural THEN PackGroup(acc, p, e.off) ELSE PackOne(acc, p, e.off)}})
rewrite_index_utf16(p, count) ==
  Fold(LAMBDA acc, i : IF acc.none THEN None
                           ELSE PackEntry(acc.it, p, i - 1, read_index(p, "NLT3", i - 1).it),
           Some([k \in 1..(count * ENTRY_V3_SIZE) |-> 0]), Upto(count))

(* Mutant: the checksum is not compared. *)
SizeOnly(h, p) == Len(p) = h.payload_size
Verified(h, p) ==
  Len(p) = h.payload_size /\ (h.magic = "NLT3" => crc32(p) = h.payload_crc32)
Unpacked(h, stored) == IF "compressed" \in h.flags THEN decompress(stored) ELSE Some(stored)
RegionBlock(h) ==
  IF "region" \in h.flags /\ h.region_size > 0
  THEN Some(SubSeq(h.body, h.region_offset + 1, h.region_offset + h.region_size)) ELSE None
Placed(h, out) ==
  IF out.none THEN None
  ELSE IF Len(out.it) + (IF "region" \in h.flags THEN h.region_size ELSE 0) > MAX_FILE THEN None
  ELSE Some([h |-> h, payload |-> out.it, region |-> RegionBlock(h)])
Rewritten(h, p) ==
  IF p.none THEN None
  ELSE IF ~ Verified(h, p.it) THEN None
  ELSE The({Placed(h, out) : out \in {IF "utf16" \in h.flags THEN rewrite_index_utf16(p.it, h.entry_count) ELSE p}})
decode(f) ==
  The({IF h.none THEN None
       ELSE The({Rewritten(h.it, p) : p \in {Unpacked(h.it, SubSeq(f.body, 1, h.it.payload_stored))}}) :
       h \in {parse_header(f)}})

-----------------------------------------------------------------------------
(* Looking up. *)

SearchStep(r, mid, e, id) ==
  CASE e.none -> [r EXCEPT !.done = TRUE]
    [] ~ e.none /\ e.it.id = id -> [r EXCEPT !.done = TRUE, !.found = e]
    [] OTHER -> (IF e.it.id < id THEN [r EXCEPT !.lo = mid + 1] ELSE [r EXCEPT !.hi = mid - 1])
find_entry(p, version, count, id) ==
  Fold(LAMBDA r, x :
      IF r.done \/ r.lo > r.hi THEN r
      ELSE The({The({SearchStep(r, mid, e, id) : e \in {read_index(p, version, mid)}}) :
                  mid \in {r.lo + ((r.hi - r.lo) \div 2)}}),
    [lo |-> 0, hi |-> count - 1, done |-> FALSE, found |-> None], Upto(count)).found

lookup(p, version, count, id) ==
  The({IF e.none THEN None ELSE str_at(p, e.it.off) : e \in {find_entry(p, version, count, id)}})

(* category: the CLDR form of a count in a language (ELSE_FORM is OTHER). *)
category(id, n) ==
  CASE id = 15 -> (CASE n = 0 -> ZERO [] n = 1 -> ONE [] n = 2 -> TWO
                     [] n % 100 \in 3..10 -> FEW [] OTHER -> MANY)
    [] id \in {14, 17, 24} ->
         (CASE n % 10 = 1 /\ n % 100 # 11 -> ONE
            [] n % 10 \in 2..4 /\ n % 100 \notin 12..14 -> FEW
            [] OTHER -> MANY)
    [] id \in {3, 7} -> (IF n \in {0, 1} THEN ONE ELSE ELSE_FORM)
    [] id \in {12, 13, 22, 23} -> ELSE_FORM
    [] OTHER -> (IF n = 1 THEN ONE ELSE ELSE_FORM)

(* select: the form of the category, else the others from OTHER on. *)
TryForm(r, t, count) ==
  IF ~ t.none /\ t # Some(<<>>) THEN [r EXCEPT !.found = t]
  ELSE [r EXCEPT !.at = IF @ = ELSE_FORM THEN (@ + 1) % count
                        ELSE IF ELSE_FORM < count THEN ELSE_FORM ELSE count - 1]
SelectFrom(p, base, count, cat) ==
  Fold(LAMBDA r, x : IF ~ r.found.none THEN r
                         ELSE The({TryForm(r, t, count) : t \in {str_at(p, base + At(p, base + 1 + r.at))}}),
           [at |-> IF cat < count THEN cat ELSE count - 1, found |-> None], Upto(count)).found
select(p, base, id, n) ==
  IF base >= Len(p) THEN None ELSE SelectFrom(p, base, At(p, base), category(id, n))

-----------------------------------------------------------------------------
(* Formatting. *)

Digits(n) == LET D == {k \in 1..9 : n >= 10 ^ k}
             IN [k \in 1..(Cardinality(D) + 1) |-> (n \div 10 ^ (Cardinality(D) + 1 - k)) % 10]
Abs(v) == IF v < 0 THEN - v ELSE v
MINUS == 12
SPACE == 14
Sign(v) == IF v < 0 THEN <<MINUS>> ELSE <<>>

(* Mutant: a separator also after the last group. *)
GroupsToTheEnd(d, g) ==
  Concat([k \in 1..Len(d) |->
    IF g.group_thousands /\ (Len(d) - k) % 3 = 0 THEN <<d[k]>> \o g.fields[2] ELSE <<d[k]>>])
Grouped(d, g) ==
  Concat([k \in 1..Len(d) |->
    IF g.group_thousands /\ Len(d) - k > 0 /\ (Len(d) - k) % 3 = 0
    THEN <<d[k]>> \o g.fields[2] ELSE <<d[k]>>])
format_number(v, g) == Sign(v) \o Grouped(Digits(Abs(v)), g)
put_scaled(v, decimals, g) ==
  LET scale == 10 ^ decimals
      frac == [k \in 1..decimals |-> ((Abs(v) % scale) \div 10 ^ (decimals - k)) % 10]
  IN IF decimals = 0 THEN format_number(v, g)
     ELSE Sign(v) \o format_number(Abs(v) \div scale, g) \o g.fields[1] \o frac
format_currency(v, decimals, g) ==
  IF g.currency_before THEN g.fields[3] \o <<SPACE>> \o put_scaled(v, decimals, g)
  ELSE put_scaled(v, decimals, g) \o <<SPACE>> \o g.fields[3]

(* put_num: the decimal digits, padded with zeros to the width. *)
put_num(v, width) ==
  LET d == Digits(Abs(v))
  IN Sign(v) \o [k \in 1..(IF width > Len(d) THEN width - Len(d) ELSE 0) |-> 0] \o d

(* render_pattern: a pattern is a sequence of runs <<letter, length>>; the *)
(* letters between the fields all stand for a space.                       *)
Two(run, v) == put_num(v, IF run >= 2 THEN 2 ELSE 0)
render_run(c, run, t, g) ==
  CASE c = "y" -> (IF run >= 4 THEN put_num(t.year, 4)
                   ELSE IF run = 2 THEN put_num(t.year % 100, 2) ELSE put_num(t.year, 0))
    [] c = "M" -> Two(run, t.month)
    [] c = "d" -> Two(run, t.day)
    [] c = "H" -> Two(run, IF g.time_24h THEN t.hour ELSE t.hour % 12)
    [] c = "h" -> Two(run, IF t.hour % 12 = 0 THEN 12 ELSE t.hour % 12)
    [] c = "m" -> Two(run, t.minute)
    [] c = "s" -> Two(run, t.second)
    [] c = "A" -> (IF t.hour < 12 THEN <<21, 25>> ELSE <<22, 25>>)
    [] c = "a" -> (IF t.hour < 12 THEN <<23, 26>> ELSE <<24, 26>>)
    [] OTHER -> [k \in 1..run |-> SPACE]
render_pattern(pattern, t, g) ==
  Concat([k \in 1..Len(pattern) |-> render_run(pattern[k][1], pattern[k][2], t, g)])

(* format_template: the cells of a template are "{", "}", digits (argument *)
(* numbers) and other letters; a placeholder is a brace, one digit and a   *)
(* brace, with nothing else between.                                       *)
parse_placeholder(inner) ==
  IF Len(inner) = 1 /\ inner[1] \in {"0", "1"} THEN Some(IF inner[1] = "0" THEN 1 ELSE 2) ELSE None
(* Mutant: a doubled brace counts once, and its second half is read again. *)
StepOverOne(t, i) == IF t[i] = "{" /\ i < Len(t) /\ t[i + 1] = "{" THEN 1 ELSE 0
Doubled(t, i) == IF t[i] = "{" /\ i < Len(t) /\ t[i + 1] = "{" THEN 2 ELSE 0
format_template(t, args, cap) ==
  LET closing(i) == {k \in (i + 1)..Len(t) : t[k] = "}"}
      step(r, i) ==
        IF i < r.next THEN r
        ELSE IF Doubled(t, i) > 0 THEN [out |-> Append(r.out, "{"), next |-> i + Doubled(t, i)]
        ELSE IF t[i] = "{" /\ closing(i) # {}
             THEN LET e == Min(closing(i))
                      a == parse_placeholder(SubSeq(t, i + 1, e - 1))
                      fits == IF a.none THEN FALSE ELSE a.it <= Len(args)
                  IN IF fits THEN [out |-> r.out \o args[a.it], next |-> e + 1]
                     ELSE [out |-> r.out \o SubSeq(t, i, e), next |-> e + 1]
        ELSE IF t[i] = "}" THEN [out |-> Append(r.out, "}"),
                                 next |-> IF i < Len(t) /\ t[i + 1] = "}" THEN i + 2 ELSE i + 1]
        ELSE [out |-> Append(r.out, t[i]), next |-> i + 1]
  IN Cut(Fold(step, [out |-> <<>>, next |-> 1], Upto(Len(t))).out, cap)

(* reorder_visual: "R" stands for a right-to-left letter, " " for a neutral *)
(* one; runs past the last slot join the last run.                          *)
Runs(t) ==
  LET split == Fold(LAMBDA rs, c :
        IF rs # <<>> /\ (c = " " \/ (Last(rs).rtl <=> c \in {"R", "S"}))
        THEN Front(rs) \o <<[Last(rs) EXCEPT !.s = Append(@, c)]>>
        ELSE Append(rs, [rtl |-> c \in {"R", "S"}, s |-> <<c>>]), <<>>, t)
      rest == Concat([k \in 1..Len(split) |-> IF k < MAX_RUNS THEN <<>> ELSE split[k].s])
  IN IF Len(split) <= MAX_RUNS THEN split
     ELSE Append(SubSeq(split, 1, MAX_RUNS - 1), [rtl |-> split[MAX_RUNS].rtl, s |-> rest])
copy_reversed(s) == Reverse(Cut(s, MAX_RUN_CHARS))
reorder_visual(t, rtl) ==
  IF ~ rtl THEN t
  ELSE Concat(Reverse([k \in 1..Len(Runs(t)) |->
         IF Runs(t)[k].rtl THEN copy_reversed(Runs(t)[k].s) ELSE Runs(t)[k].s]))

-----------------------------------------------------------------------------
(* "table": nltc compiles a catalogue; the file may then lose its end or one *)
(* of its cells change.                                                      *)

NoFile == [src |-> None, opts |-> None, f |-> None, hurt |-> FALSE]
AllOpts == [compress : BOOLEAN, utf16 : BOOLEAN, sign : BOOLEAN]
cmd_compile ==
  /\ load = "table" /\ file = NoFile
  /\ \E s \in Sources, opts \in AllOpts :
       \E f \in {build_nlt(s, opts)} :
         file' = [src |-> Some(s), opts |-> Some(opts), f |-> f, hurt |-> FALSE]
  /\ UNCHANGED <<load, disk, lang, tables, res, steps>>

Hurt(f, k) == [f EXCEPT !.body = Put(@, k - 1, <<(@[k] + 1) % 128>>)]
Shortened(f, k) == [f EXCEPT !.body = SubSeq(@, 1, k - 1)]
Damage ==
  /\ load = "table" /\ ~ file.f.none /\ ~ file.hurt
  /\ \E k \in 1..(file.f.it.payload_stored) :
       \E f \in {Hurt(file.f.it, k), Shortened(file.f.it, k)} :
         file' = [file EXCEPT !.f = Some(f), !.hurt = TRUE]
  /\ UNCHANGED <<load, disk, lang, tables, res, steps>>

-----------------------------------------------------------------------------
(* "i18n": the tables of one program.  The disk holds what --generate-all   *)
(* compiled, perhaps with one file missing and one damaged.                 *)

DefaultOpts == [compress |-> TRUE, utf16 |-> FALSE, sign |-> TRUE]
Shipped == [s \in {x \in Sources : HasIds(x)} |-> build_nlt(s, DefaultOpts)]
FileOf(d, app, tag) == IF <<app, tag>> \in DOMAIN d THEN d[<<app, tag>>] ELSE None
Disks ==
  {[k \in {<<s.app, s.lang>> : s \in {x \in Sources : HasIds(x)} \ lost} |->
      LET s == CHOOSE x \in Sources : x.app = k[1] /\ x.lang = k[2] /\ HasIds(x)
      IN IF s \in bad THEN Some(Hurt(Shipped[s].it, 1)) ELSE Shipped[s]] :
     lost \in {{}} \cup {{x} : x \in Sources}, bad \in {{}} \cup {{x} : x \in Sources}}

find_table_idx(T, app) == {i \in DOMAIN T : T[i].name = app}

(* store_table: a table goes to the first free slot. *)
TableOf(app, d, asked) ==
  [name |-> app, payload |-> d.payload, version |-> d.h.magic, entries |-> d.h.entry_count,
   lang |-> d.h.language_id, region |-> d.region, asked |-> asked]
store_table(T, app, d, asked) ==
  IF Len(T) >= MAX_TABLES \/ Len(d.payload) > MAX_FILE THEN None
  ELSE Some(Append(T, TableOf(app, d, asked)))

verify_if_signed(f) ==
  LET h == parse_header(f)
  IN IF h.none THEN TRUE
     ELSE "signed" \in h.it.flags =>
            h.it.body[h.it.signature_offset + 1] = crc32(SubSeq(h.it.body, 1, h.it.signature_offset))

LoadFile(T, app, f, asked) ==
  IF Len(f.body) > MAX_FILE \/ ~ verify_if_signed(f) THEN None
  ELSE The({IF d.none THEN None ELSE store_table(T, app, d.it, asked) : d \in {decode(f)}})
try_load_table(T, app, tag, asked) ==
  The({IF f.none THEN None ELSE LoadFile(T, app, f.it, asked) : f \in {FileOf(disk, app, tag)}})

(* i18n_load: the first table of the language's chain that loads. *)
LoadInto(T, app, tag) ==
  IF find_table_idx(T, app) # {} THEN Some(T)
  ELSE Fold(LAMBDA r, t : IF r.none THEN try_load_table(T, app, t, tag) ELSE r,
                None, fallback_chain(tag))

NoRes == [fn |-> "none"]
Apps == {s.app : s \in Sources}
Call(fn, app, T) ==
  /\ steps < MaxOps /\ steps' = steps + 1
  /\ tables' = IF T.none THEN tables ELSE T.it
  /\ res' = [fn |-> fn, app |-> app, ok |-> ~ T.none]

i18n_load ==
  /\ load = "i18n"
  /\ \E app \in Apps : \E T \in {LoadInto(tables, app, lang)} : Call("load", app, T)
  /\ UNCHANGED <<load, file, disk, lang>>

(* i18n_load_from_package: the package's table of the exact language, else  *)
(* what i18n_load finds; the package's file is the one on disk.             *)
FromPackage(app, d) ==
  IF d.none THEN None
  ELSE The({IF t.none THEN LoadInto(tables, app, lang) ELSE t : t \in {store_table(tables, app, d.it, lang)}})
i18n_load_from_package ==
  /\ load = "i18n"
  /\ \E app \in Apps : \E f \in {FileOf(disk, app, lang)} :
       \E T \in {IF find_table_idx(tables, app) # {} THEN Some(tables)
                 ELSE IF f.none THEN LoadInto(tables, app, lang)
                 ELSE The({FromPackage(app, d) : d \in {decode(f.it)}})} :
         Call("package", app, T)
  /\ UNCHANGED <<load, file, disk, lang>>

(* Mutant: the languages of the tables stay where they are. *)
ShiftKeepsLang(T, i) ==
  [k \in 1..(Len(T) - 1) |-> IF k < i THEN T[k] ELSE [T[k + 1] EXCEPT !.lang = T[k].lang]]
ShiftDown(T, i) == [k \in 1..(Len(T) - 1) |-> IF k < i THEN T[k] ELSE T[k + 1]]
i18n_unload ==
  /\ load = "i18n"
  /\ \E app \in Apps : \E i \in find_table_idx(tables, app) :
       Call("unload", app, Some(ShiftDown(tables, i)))
  /\ UNCHANGED <<load, file, disk, lang>>

i18n_set_language ==
  /\ load = "i18n" /\ steps < MaxOps
  /\ \E tag \in Tags \ {lang} : lang' = tag
  /\ steps' = steps + 1 /\ res' = NoRes
  /\ UNCHANGED <<load, file, disk, tables>>

Reloaded(T) ==
  Fold(LAMBDA acc, i : The({IF t.none THEN acc ELSE t.it : t \in {LoadInto(acc, T[i].name, lang)}}),
           <<>>, Upto(Len(T)))
i18n_reload_all ==
  /\ load = "i18n" /\ tables # <<>>
  /\ \E T \in {Reloaded(tables)} : Call("reload", 0, Some(T))
  /\ UNCHANGED <<load, file, disk, lang>>

(* The readers: the first table that has the id answers. *)
lookup_in(t, id) == lookup(t.payload, t.version, t.entries, id)
i18n_try_get_id(T, id) ==
  Fold(LAMBDA r, t : IF r.none THEN lookup_in(t, id) ELSE r, None, T)
PluralIn(t, id, n) ==
  The({IF e.none THEN None
       ELSE IF e.it.plural THEN select(t.payload, e.it.off, t.lang, n) ELSE str_at(t.payload, e.it.off) :
       e \in {find_entry(t.payload, t.version, t.entries, id)}})
table_region(t) == IF t.region.none THEN None ELSE parse_region(t.region.it)
i18n_region(T) ==
  Fold(LAMBDA r, t : IF r.none THEN table_region(t) ELSE r, None, T)

-----------------------------------------------------------------------------
(* "text": calls of the formatting helpers. *)

Grp(h24, before, group) ==
  [fields |-> <<<<11>>, <<10>>, <<13>>, <<>>, <<>>, <<>>>>,
   time_24h |-> h24, currency_before |-> before, group_thousands |-> group]
Patterns == {<<<<"H", 2>>, <<":", 1>>, <<"m", 2>>>>, <<<<"h", 1>>, <<":", 1>>, <<"m", 2>>, <<"A", 1>>>>,
             <<<<"d", 2>>, <<"/", 1>>, <<"M", 1>>, <<"/", 1>>, <<"y", 4>>>>,
             <<<<"y", 2>>, <<"-", 1>>, <<"M", 2>>, <<"-", 1>>, <<"d", 1>>>>,
             <<<<"h", 2>>, <<":", 1>>, <<"s", 2>>, <<" ", 1>>, <<"a", 1>>>>}
Times == [year : {1999}, month : {1, 11}, day : {1, 11}, hour : {0, 1, 11, 12, 13, 23}, minute : {5, 50}, second : {9}]
Words == {<<>>, <<"a">>, <<"x", "{">>}
Said(fn, in, out) == res' = [fn |-> fn, in |-> in, out |-> out]

i18n_format_number ==
  /\ load = "text"
  /\ \E v \in Amounts, g \in {Grp(TRUE, TRUE, b) : b \in BOOLEAN} :
       Said("number", <<v, g>>, format_number(v, g))
  /\ UNCHANGED <<load, file, disk, lang, tables, steps>>
i18n_format_currency ==
  /\ load = "text"
  /\ \E v \in Amounts, g \in {Grp(TRUE, b, TRUE) : b \in BOOLEAN} :
       Said("currency", <<v, g>>, format_currency(v, 2, g))
  /\ UNCHANGED <<load, file, disk, lang, tables, steps>>
i18n_format_time ==
  /\ load = "text"
  /\ \E p \in Patterns, t \in Times, b \in BOOLEAN :
       Said("time", <<p, t, Grp(b, TRUE, TRUE)>>, render_pattern(p, t, Grp(b, TRUE, TRUE)))
  /\ UNCHANGED <<load, file, disk, lang, tables, steps>>

(* A template is written from parts: a letter, a brace (doubled in the      *)
(* template) or an argument.                                                *)
Escaped(part) == CASE part = "{" -> <<"{", "{">> [] part = "}" -> <<"}", "}">>
                   [] part \in {"0", "1"} -> <<"{", part, "}">> [] OTHER -> <<part>>
Meant(part, args) == CASE part = "0" -> args[1] [] part = "1" -> args[2] [] OTHER -> <<part>>
i18n_format ==
  /\ load = "text"
  /\ \E n \in 0..3 : \E ps \in [1..n -> Parts], a \in Words, b \in Words :
       Said("format", <<ps, <<a, b>>>>, format_template(Concat(Each(Escaped, ps)), <<a, b>>, FMT_LEN))
  /\ UNCHANGED <<load, file, disk, lang, tables, steps>>
i18n_reorder_visual ==
  /\ load = "text"
  /\ \E n \in 0..5 : \E t \in [1..n -> {"R", "S", "L", " "}], rtl \in BOOLEAN :
       Said("visual", t, reorder_visual(t, rtl))
  /\ UNCHANGED <<load, file, disk, lang, tables, steps>>

-----------------------------------------------------------------------------
Init ==
  /\ load \in Workloads
  /\ file = NoFile
  /\ disk \in IF load = "i18n" THEN Disks ELSE {<<>>}
  /\ lang \in IF load = "i18n" THEN Tags ELSE {en}
  /\ tables = <<>> /\ res = NoRes /\ steps = 0

Next == \/ cmd_compile \/ Damage
        \/ i18n_load \/ i18n_load_from_package \/ i18n_unload \/ i18n_set_language \/ i18n_reload_all
        \/ (load = "text" /\ res = NoRes /\ (i18n_format_number \/ i18n_format_currency
                                            \/ i18n_format_time \/ i18n_format \/ i18n_reorder_visual))

Spec == Init /\ [][Next]_vars

-----------------------------------------------------------------------------
(* Properties. *)

Expect(s, n, k) ==
  IF n \in DOMAIN s.strings THEN UTF8(s.strings[n])
  ELSE LET F == Forms(s.plural[n])
           c == category(lang_to_id(s.lang), k)
       IN UTF8(IF F[c] # <<>> THEN F[c] ELSE F[ELSE_FORM])
Keys(s) == DOMAIN s.strings \cup DOMAIN s.plural
Says(t, s) ==
  /\ \A k \in 1..Len(Names(s)), c \in Counts :
       PluralIn(t, EntryOf(s, k).id, c) = Some(Expect(s, Names(s)[k], c))
  /\ \A id \in 0..3 : find_entry(t.payload, t.version, t.entries, id).none
  /\ table_region(t) = s.region

(* nltc and libnlt's decode: a table that decodes gives, for every name of   *)
(* its catalogue and every count, the text the catalogue has for it, also    *)
(* after a cell of the payload changed or the file lost its end; and a file  *)
(* left alone decodes when its payload fits the compressor's window.         *)
TableTellsSource ==
  ~ file.f.none /\ ~ file.opts.it.utf16 =>
    LET d == decode(file.f.it)
        P == build_payload(compile(file.src.it).it, FALSE).it
    IN /\ ~ file.hurt /\ Len(P) <= WINDOW_SIZE => ~ d.none
       /\ ~ d.none => Says(TableOf(0, d.it, en), file.src.it)

Catalogue(app, tag) == {s \in Sources : HasIds(s) /\ s.app = app /\ s.lang = tag}
Sound(app, tag) ==
  /\ <<app, tag>> \in DOMAIN disk
  /\ \E s \in Catalogue(app, tag) : disk[<<app, tag>>] = Shipped[s]
Nearest(app, tag) ==
  LET home == canonical_for_language(tag[1])
      C == <<tag, <<tag[1], "">>, IF home.none THEN en ELSE home.it, en>>
      ok == {k \in DOMAIN C : Sound(app, C[k])}
  IN IF ok = {} THEN None ELSE Some(C[Min(ok)])
Keymap == cmd_generate_keymap({s \in Sources : HasIds(s) /\ s.lang = en})

(* libneodos i18n: every table a program holds is its application's table in *)
(* the nearest language with a sound file, no application has two, a load    *)
(* fails only when no file is sound or the slots are full, and with the      *)
(* catalogues' coverage checked a key finds its text in any language.        *)
TablesNearest ==
  load = "i18n" =>
    /\ Len(tables) <= MAX_TABLES
    /\ \A i \in DOMAIN tables :
         LET t == tables[i]
         IN /\ find_table_idx(tables, t.name) = {i}
            /\ ~ Nearest(t.name, t.asked).none
            /\ \A s \in Catalogue(t.name, Nearest(t.name, t.asked).it) : Says(t, s)
    /\ res.fn = "load" /\ ~ res.ok => Len(tables) = MAX_TABLES \/ Nearest(res.app, lang).none
    /\ cmd_check_coverage({s \in Sources : HasIds(s)}) /\ tables # <<>> =>
         \A s \in Catalogue(tables[1].name, en) : \A n \in DOMAIN s.strings :
           LET id == find_const(Keymap, KeyOf(s.app, n))
           IN ~ id.none /\ ~ i18n_try_get_id(tables, id.it).none

ValueOf(out) ==
  LET d == SelectSeq(out, LAMBDA c : c \in 0..9)
      m == Fold(LAMBDA acc, c : 10 * acc + c, 0, d)
  IN IF MINUS \in Range(out) THEN - m ELSE m
Separators(out) == {k \in 1..Len(out) : out[Len(out) + 1 - k] = 10}
IsHour(p) == \E k \in DOMAIN p : p[k][1] \in {"h", "H"}

(* libnlt's region, format and bidi helpers: a number or an amount reads     *)
(* back as its value with a separator before every third digit from the      *)
(* right; two hours or two days never look alike unless the pattern leaves   *)
(* out what tells them apart; a template of escaped text and placeholders    *)
(* gives the text and the arguments; reordering loses no letter.             *)
TextTellsValue ==
  CASE res.fn = "number" ->
         /\ ValueOf(res.out) = res.in[1]
         /\ LET n == Len(Digits(Abs(res.in[1])))
            IN Separators(res.out) = IF res.in[2].group_thousands
                                     THEN {4 * k : k \in 1..((n - 1) \div 3)} ELSE {}
    [] res.fn = "currency" -> ValueOf(res.out) = res.in[1] /\ Cardinality({k \in DOMAIN res.out : res.out[k] = 11}) = 1
    [] res.fn = "time" ->
         LET p == res.in[1]
             t == res.in[2]
             g == res.in[3]
         IN IF IsHour(p)
            THEN \A h \in {0, 1, 11, 12, 13, 23} :
                   render_pattern(p, [t EXCEPT !.hour = h], g) = res.out =>
                     h = t.hour \/ ((\E k \in DOMAIN p : p[k][1] = "H") /\ ~ g.time_24h /\ h % 12 = t.hour % 12)
            ELSE \A d \in {1, 10, 11, 31}, m \in {1, 10, 11, 12} :
                   render_pattern(p, [t EXCEPT !.day = d, !.month = m], g) = res.out => d = t.day /\ m = t.month
    [] res.fn = "format" -> res.out = Cut(Concat(Each(LAMBDA x : Meant(x, res.in[2]), res.in[1])), FMT_LEN)
    [] res.fn = "visual" ->
         (\A k \in DOMAIN Runs(res.in) : Len(Runs(res.in)[k].s) <= MAX_RUN_CHARS) =>
           \A c \in {"R", "S", "L", " "} :
             Cardinality({k \in DOMAIN res.in : res.in[k] = c}) = Cardinality({k \in DOMAIN res.out : res.out[k] = c})
    [] OTHER -> TRUE

(* A compiled table tells exactly what its catalogue says, the table a       *)
(* program holds is the nearest sound one, and numbers, dates and mixed-     *)
(* direction text are formatted so that they can be read back.               *)
TranslationsRight ==
  CASE load = "table" -> TableTellsSource
    [] load = "i18n" -> TablesNearest
    [] load = "text" -> TextTellsValue
=============================================================================

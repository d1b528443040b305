# Verification of HTPPS

TLA+ models of the HTPPS server (`src/`) and of its script engine
(`jsengine/`), checked with TLC on small instances and, except for the script
language, proved with TLAPS for all of them. Paths and line numbers refer to the
repository; `PROJECT.json` maps every definition to its lines.

## 1. The system

The program is one process with one thread. `main` reads its arguments, fills
a cache with the index page, prints a banner, opens one listening socket and
serves clients one after the other until it is killed. Nothing is persisted.
The script engine is a library next to it, with a shell of its own.

| Part | State it keeps | Operations | Correct if |
|---|---|---|---|
| Accept loop and plain HTTP (`main.c`, `fast_io.asm`) | three static buffers, the cached index, the current descriptor | accept, one `recv`, parse, route, build, send, wipe, close | a response is whole or absent; no byte of one client reaches another; buffers are clean and one descriptor is open at most; every client gets its turn |
| TCP (`tcp.c`, the kernel) | backlog, a byte queue per direction | listen, accept, recv, send, close | (environment) bytes arrive in order, in pieces; peers leave at any time |
| Parsing, routing (`http.c`, `router.c`) | none besides the buffers they are given | parse a request, choose a response, format it | lengths cover what was written |
| TLS handshake (`handshake.c`, `prf.c`) | `tls_session`: randoms, secrets, keys, sequence numbers, transcript, private key | four sends, four reads, one derivation | both ends agree on keys and transcript; the secrets of a connection end with it (the server's private key does not) |
| Record layer (`record.c`, `tls_io.c`) | position in the stream, encryption flags | read and write a record | what is read is what was written, in step |
| SHA-256 | block state, partial block, length | init, update, final on a copy | digests are of the whole padded message |
| Big numbers, RSA | words and a length | `bn_mod_exp` over multiply, shift, subtract; the scan of the padding | the power, with canonical lengths; the caller gets the data of a padded block and of nothing else |
| PEM, ASN.1 | a file's text, the bytes decoded, the place in them | find the body, decode base64, read a sequence and six integers | the numbers are those the file was made from |
| HMAC, PRF, key derivation | `A(i)` and the output so far | one block per turn, twice per session | both ends' keys are the parts of the PRF the RFC names |
| AES, CPU dispatch | keys or nothing | pure functions | published vectors (tested in `tests/`) |
| Script engine host (`jsengine.c`) | cache of parsed files, capture buffer | run, run a file, template, cleanup | runs leave nothing behind; cache entries belong to their paths |
| Evaluator (`eval.c`, `value.c`) | scopes, table of functions, pools of values | `js_eval` | programs print what they print in JavaScript; scopes outlive their use |
| Loop compiler (`jit.c`) | machine code and copied variables during one loop | compile, run, write back | the loop does what the interpreter would |
| Lexer, parser | token list, position | tokenize, parse | tokens are the longest lexemes; the tree is the one the source was written from; nothing is dropped in silence |

Interaction: `main` calls the handlers directly; the HTTP handler and the TLS
handler share no state, and `main` enters the one or the other (mode 0 or not).
Handlers call the router, the builder and the socket functions; the handshake
calls the record layer, the hash and RSA. `jsengine_run_file` calls lexer,
parser and evaluator; the evaluator calls the compiler and, through
`console.log`, back into the host's capture buffer.

Hard to test are: the ways in which a request can be cut, a response partly
taken and a client gone between any two system calls; clients that arrive
meanwhile; early exits that skip assignments the cleanup relies on; every
failure exit of a handshake; the order of hashing, key use and counting on two
ends; lengths at block, word and field boundaries; sequences of script runs
over shared tables; loops at the limits of the compiler; every way in which a
source can break off or an expression can nest; names that are looked up and
bound through chains of scopes while calls nest; lengths of numbers in a key
file, and where padding ends. `PROJECT.json` lists
each of them with its line under "hazards".

## 2. The modules

| Module | Models | Kind |
|---|---|---|
| `Tcp` | sockets, backlog and clients as `tcp.c` and `fast_io.asm` meet them | environment, used by `HttpServer` |
| `Routing` | requests, parsing, routes, what the builder leaves behind | operators |
| `RequestService` | one client at a time, in order, each dismissed | abstract specification |
| `HttpServer` | accept loop of mode 0, `handle_http_client`, byte by byte | state machine; refines `RequestService` |
| `HttpServerProofs` | | proofs, refinement included |
| `SecureExchange` | one private question and answer per connection | abstract specification |
| `TlsServer` | `handle_https_client`, `tls_handshake`, client | state machine; refines `SecureExchange` |
| `TlsServerProofs` | | proofs, refinement included |
| `TlsRecord`, `TlsRecordProofs` | record framing over a byte stream | state machine, proofs |
| `Sha256Stream`, `Sha256StreamProofs` | the hash context | state machine, proofs |
| `BigNum` | word arithmetic and `bn_mod_exp` | state machine over operators |
| `Rsa` | `rsa_decrypt_pkcs1`, on `BigNum` | state machine |
| `KeyFile` | `rsa_load_private_key` with `pem.c` | state machine |
| `Prf` | HMAC, `tls_prf`, `derive_keys` | state machine, with the RFCs' definitions |
| `KeyExchange`, `KeyExchangeProofs` | `BigNum` with `Rsa`, `KeyFile` and `Prf` side by side | composition, proofs |
| `ServerMain`, `ServerMainProofs` | the command line, the banner, the socket | state machine, proofs |
| `ScriptEngine`, `ScriptEngineProofs` | host interface and the resources of evaluation | state machine, proofs |
| `Lexer` | `js_tokenize` | state machine, with a definition of lexemes; proofs |
| `Parser` | `js_parse` | recursive operators |
| `Evaluator` | `js_eval` with the values of `value.c` | recursive operators |
| `JavaScript` | how a tree is written and what a program prints in JavaScript | reference definition |
| `Script` | a script from its text to its output (`jsengine_run`) | state machine over the four above |
| `ScriptExpr` | numeric values and the operations on them | operators |
| `Loops` | the expressions and statements of loops, and `js_eval` on them | recursive functions |
| `WhileLoop` | the interpreter's `while` | abstract specification |
| `Jit` | compiled `while` loops, instruction by instruction | state machine; refines `WhileLoop` |
| `LanguageProofs` | | proofs about `Jit`, refinement included, and about `Lexer` |
| `MCSequential` | `ServerMain`, `Sha256Stream` and `KeyExchange`, one of them in each behaviour | small instances, composition |
| other `MC...` | small instances | |

### HttpServer with Tcp and Routing

The static buffers `g_recv_buf`, `g_send_buf`, `g_file_buf` are `recvBuf`,
`sendBuf`, `fileBuf`: functions from positions to the *origin* of the byte
there, a client, the index page, or `Zero` (wiped). The locals `received`,
`res`, `resp_len` and the progress of `fast_send` are `got`, `res`, `respLen`
and `sent`; `pc` says before which call the handler is. One action per call:
`Accept`/`AcceptFails` (`fast_accept`), `Recv`, `ParseRejects`/`ParseAccepts`,
`Route`, `BuildFits`/`BuildOverflows`, `Write` and `SendReturns` (the loop in
`fast_send`), `Cleanup` or `WipeRecv` (the fast path's), `Close`.
`res` keeps an arbitrary value of `StackGarbage` until the router
assigns it, because the early `goto cleanup` (`main.c:117`, `121`) wipes by it all
the same. If that value is more than the file buffer holds, the wipe leaves the
buffer; C says nothing of what follows, and the model stops with `pc` at
`undefined`. Both runs have such values. `WipeFailsUnroutedOnly` says for whom it
can happen (a client of which no request was accepted), and the abstract service
has a step for it (`BreakDown`), so that the refinement and
`EveryClientIsDismissed` promise what they promise up to there and no further.

Clients (`Tcp`) connect, send their request in segments, shut down, reset, and
read what they are sent; the kernel takes at most `SockBuf` bytes ahead of
them, so that writes are partial. All of that interleaves with every step.
A request is a record of its length, where its first line ends, whether that
line parses, and which route its path takes; `Routing` says which responses the
router can produce for it, including those that depend on the file system.

### TlsServer

`sess` is the `tls_session` on the stack: the randoms, the secrets, the keys (a
direction's MAC and cipher key as one), the IVs, the sequence numbers, the
encryption flags, the transcript and the server's private key. The descriptor
and the certificate are left out. Cryptography is
symbolic: a PRF output is the tuple of its inputs, a protected record names its
key and sequence number, the transcript hash is the sequence of messages. One
action per step of `tls_handshake`, with each of its failure returns; `Alloc`,
`SessionInit`, `ReadRequest`, `Respond`, `SessionCleanup`, `FreeAndClose` are
the rest of `handle_https_client`. Memory may run out wherever it is asked for: at
the three buffers, for the Certificate message, for a protected record that is
written, for one that is read. `SessionCleanup` zeroes what `tls_session_cleanup`
zeroes: the private key, the IVs and the randoms stay in the session until the
next one is initialised. A failed MAC or `verify_data` comparison is
recorded (`mismatch`), because the code logs it and goes on; the property is
that with a client that follows RFC 5246 none ever fails. `server_random`
depends on the second, and connections of one second share it. The client is
external: it follows the protocol, may split its request over two records or send
a record of no bytes before it (which ends the connection, as `tls_read` returns
0), may offer no suite the server has, and may give up after any of its steps.

### TlsRecord

One byte stream between `tls_write_record` and `tls_read_record`, whose bytes
are known by position. The writer may fail after any byte, TCP delivers any
prefix, each `recv` of `read_exact` returns any part. The length field counts
modulo `Field`, the padding byte is computed as in lines 161-177. What is written
before ChangeCipherSpec are handshake messages (`Messages`), which are never
longer than a record may be; what is written after it are the payloads of
`tls_write`. `tls_read` finds a padding byte (`FoundAt`), refuses a payload that
is too short (`TooShort`: below an IV and a block, or with less than a MAC left),
and gives its caller no more than `buf_len` bytes (`Copied`). If the reader were
ever out of step, or a payload no whole number of blocks, what it finds would be
arbitrary. Records of other writers than this one, whose payloads need not be
whole blocks, are not modelled.

### Sha256Stream

The message is the sequence of the numbers 1, 2, 3, ..., so that a byte carries
its own position. `Update` fills the partial block, takes whole blocks and
keeps the rest; `FinishCopy` is what the handshake does: `sha256_final` on a
copy while the context goes on. The compression function is left symbolic: the
state is the sequence of blocks compressed.

### BigNum

`bn_mod_exp` step by step (one bit of a division per step), over `bn_mul` with
the assembly's carries, `bn_shl1`, `bn_sub`, `bn_trim` and the conversions, on
arrays of `BN_MAX_WORDS` words whose width is a parameter. `ct` is the ciphertext as
the client sent it. Its length is a 16-bit number of the ClientKeyExchange that
nothing compares with anything (`handshake.c:329-336`), and `bn_from_bytes`
bounds `len` only after its loop (`bignum.c:56-66`): more than `BN_MAX_WORDS` words
(512 bytes) are written behind the array. `ReadBase` ends as `undefined` for exactly those
ciphertexts; nothing is claimed of what follows. That the modulus takes half the
array at most and the exponent all of it is assumed (`WordAssumption`): they come from the
key file, through a buffer of 512 bytes.

### Rsa, KeyFile, Prf and KeyExchange

What the handshake computes with keys. `KeyFile` reads a key file character by
character: `FindBody` is the search for the two markers, `DecodeChar` a turn of
`base64_decode`'s loop (`buf` and `bits` are its variables), `ReadSequence` and
`ReadInteger` the ASN.1 reader, each with its failure returns. A file is given
as what it was made from (numbers, width of lines, what is missing), and
`Written` makes it by X.690 and RFC 7468; `KeyAsWritten` compares what was read
with what was written, and says exactly which files are refused. `Rsa` continues
`BigNum`: `Strip` turns the power into bytes and looks for the padding;
`PaddingDecides` compares it with all the blocks a client may have encrypted.
`Prf` computes HMAC with a given hash, `tls_prf` one block per step
(`ExpandBlock`), and `derive_keys` as two calls and the slicing of the block;
`PrfAsInRfc` compares each state with `P_hash` of RFC 5246.
The three hand on values only, so `KeyExchange` starts each of them with values
of its own; in `TlsServer` the same functions are symbolic.

### ServerMain

The loop over `argv` with its `++i`, the clipping of ports to 16 bits, the
banner, and which socket is opened.

### ScriptEngine

What a script computes is left open: a run is any properly nested sequence of
the steps that touch a shared resource (`Capture`, `Allocate`, `Define`,
`Call`, `EnterFor`, `Return`) between `RunSource`/`RunNew`/`RunCached` and
`Leave`. Files change at any time (`Edit`); `read` is what a file held when a script
was last made of it. `live` are the scopes allocated,
`pool` the number of values tracked by `value.c`, `scopes` the scope of every
function ever defined (their number is `num_closures`), `Gone` for those of earlier
runs, which `js_eval` calls all the same (`eval.c:402-406`): what such a call does
is left open, and the run goes no further. `output_pos` is how much of the output
buffer is filled, and `printed` how much the run has printed in all.

### Lexer, Parser, Evaluator, JavaScript, Script

`Script` is `jsengine_run` on one script, in three stages. `ScanText` is a turn
of `js_tokenize`'s loop (`SkipLine`, `SkipBlockComment`, `Scan`, `TooMany`,
`EndOfText`), `ParseStatement` a turn of `js_parse`'s, `Evaluate` one statement
of `NODE_PROGRAM`. `Parser` has an operator per function of `parser.c`, from a
place in the token list to the place behind what was parsed, with the node made
and whether a message was printed; `Binary` and `Operators` stand for the seven
functions of the operator levels. `Evaluator` has `js_eval` with the scopes
(`env_set`, `env_get`, `env_new`, `env_free` over a function from numbers to
scopes, so that a freed one is absent), the table of functions, arrays, objects,
methods, built-in objects and the text of values. Where the C code reads or
writes what is not there, the machine is `broken` and the run `undefined`. Texts have
the buffers they have in C: `str_concat` cuts its left operand and its result,
`ArrayText` stops when little of `print_buf` is left, and breaks when an item was longer
than what was left of it; JSON is left open beyond its buffer.

`JavaScript` is the reference: `Source` writes a tree as tokens, with the
fewest parentheses JavaScript needs, in several styles; `Run` says what a
program prints, in an environment where scopes live as long as they are used. It
takes the form of trees and of values from `Evaluator`, and no operation: operators,
conversion to text and to JSON, truth values, objects and arrays are defined in it
(decimal digits, bits of numbers, an object as an order of keys and a function).
Three comparisons result: the lexer against `Lexemes`, the tree against the one
its source was written from, the output against JavaScript's. The engine is a
subset on purpose, so two predicates say for which programs they are stated.
`Grammatical`: operators whose grouping the engine changes are parenthesised, and
calls start a chain of members only as the parser allows. `Regular`: names are
declared once, functions return at their end (or within `if ... else`
at it), none are made in loops. `RunsAsJavaScript` further excludes, by `proper`,
programs that JavaScript refuses, that call a function whose scope has ended, that
convert an operand other than those of `+`, or whose texts and objects do not fit the
engine's buffers: a left operand of `+` of more than 511 bytes, a result of more
than 1023, JSON of 4096, objects of more properties than the table has. The
fourth test of `jsengine/tests/test_programs/bench.js` is beyond that: it makes a string of
1000 bytes, of which the engine keeps 512 (and which the test does not print).

### ScriptExpr, Loops, WhileLoop, Jit

`WhileLoop` is the interpreter's loop, one step per turn. `Jit` decides with
`jit_can_compile`, then compiles as `jit_compile_and_run` does: `compile_expr`
gives the instructions that leave an expression's value in a register, using the
registers above it, or none where the code gives up (`ExprCode`); `compile_assign`
stores it; `WithName` is the table of variables with its limit. An instruction is
its operation, its destination and its source; `Size` is what it takes in bytes.
The machine (`Step`, `Run`) has the registers, xmm6 among them, and the cells of
`vars[]`. `Compile` copies variables in, `NativeTurn` runs the condition's code and
the body's, `NativeLeave` copies back. The mapping shows the scope as it would be
if the variables were written back now. Expressions are a constant, `Exprs`, that
contains the parts of its members, and `Height` says that they are finite. Numbers
are integers; division and `%` by zero or negative numbers, and with them rounding
and NaN, are left out, so that `divsd` and `roundsd` are one instruction.

## 3. The runs

| Run | Shows | Instance and why it is enough |
|---|---|---|
| `http_safety` | `BuffersCleanBetweenClients`, `OneOpenDescriptor`, `WholeResponseOrNothing`, `WipeFailsUnroutedOnly` | two clients, which is what stale bytes need; receive buffer 4, send and file buffer 3; requests shorter and longer than the buffer, without CRLF, with too long a line, with two tokens; cached index absent, fitting, too large; uninitialised lengths negative, inside and beyond the file buffer (1.7 million states) |
| `http_service` | `OwnBytesOnly`, `RefinesRequestService`, `EveryClientIsDismissed` | a send buffer of 2, too small for some responses, so that the builder fails half way; one byte of socket buffer, so that every write is partial; uninitialised lengths inside and beyond the file buffer, so that the wipe may leave it |
| `tls_exchange` | `EndsAgree`, `OnlyTheKeyStays`, `ProtectedOnce`, `RefinesSecureExchange`, `EveryConnectionIsClosed` | two connections, in the same or different seconds, every failure |
| `record_stream` | `ReadsWhatWasWritten`, `FailsOnlyAtTheEnd`, `EveryRecordIsRead` | two records of 0, 1 or 4 bytes with blocks of 3: padding of every length, a record cut at every byte; a reader's buffer of 3, so that some content is cut |
| `record_limit` | violated: `PlaintextWithinLimit` | handshake messages within the limit, then contents up to the size of the length field |
| `sequential_parts` | | the parts that run alone; they share no state, so each behaviour runs one of them |
| ... the command line | `SettingsAsGiven` | all command lines of up to four words |
| ... the hash | `DigestOfWholeMessage`, `NothingLost` | the real block size; pieces 0, 1, 7, 55, 64, 73 up to 200 bytes: every fill level near the boundaries |
| ... keys | `RemainderOfWhatCameDown`, `PowerOfTheBitsSeen`, `PaddingDecides`, `KeyAsWritten`, `PrfAsInRfc` | words of two bits, so that a modulus of four bits has two words and products four; all bases, exponents of three bits, all moduli above 1; bytes of one bit for the padding, so that four RSA keys of six bytes see every ciphertext; ciphertexts of 15 to 20 bytes around the 16 that the array holds; key files with numbers of 0, 1, 127, 128, 255, 256 and 257 bytes, with and without the high bit, lines of 4 to 99 characters, up to 12 bytes cut off; PRF outputs of 0 to 10 bytes over digests of 3, secrets around the block size, seeds around the size of `full_seed` |
| `announced` | violated: `ServesAllThatIsAnnounced` | no arguments suffice |
| `script_runs` | `CacheBindsPath`, `NothingIsLeft`, `OutputWithinBuffer` | two paths, three sources (one too long to tokenize), a cache of one entry, four steps a run, one function |
| `script_cache` | violated: `RunsWhatTheFileHolds` | one file, edited between two runs |
| `script_scopes` | violated: `ClosuresKeepTheirScope` | four steps: a function defines one, which is called after the first returned |
| `compiled_loops` | `RefinesWhileLoop` | six conditions, bodies of up to two assignments of 14 expressions to two variables, six scopes; limits of three variables, registers 0 to 2 and xmm6 behind them, and 110 bytes, so that loops lie on both sides of each; `Junk`, what the registers hold before, differs from every value of a scope |
| `script_program` | `TokensOfTheText`, `ParsesWhatIsMeant`, `NothingPassedOver`, `RunsAsJavaScript` | all texts of up to three characters of 18 kinds, and longer ones for comments, operators and strings, with a table of three tokens and texts of less than four characters, so that each limit is met; all lists of three tokens of 17 kinds, four of those that open, close and separate, five of those of a call; every operator between operands of every level; programs of a function (nine bodies: recursion, loops, nested functions, closures, a change of the caller's variables), one of 33 statements and one of twelve that depend on what came before, between declarations and output; text buffers of 5, 8, 10 and 16 bytes, which programs meet and exceed |

Each module's type invariant is checked in one of its runs; it carries facts
that code takes for granted: canonical lengths of big numbers, one register per
variable, the bound of the cache. For each property of a passing run
`PROJECT.json` names a mutant, a small mistake of the kind the code could have
had (a wipe by a length short by one, a MAC sequence number not counted, a lost
carry), under which the property fails. Deadlock is not checked where a
system may stop: no clients left, all records written, a program at its end, a
bounded loop.

**Symmetry** is used for clients and for script names, which nothing
distinguishes, and only in runs of invariants.

**Fairness.** `HttpServer`: the server's step is weakly fair, as it is one
thread which runs whenever no call blocks it. There are no timeouts in the
code: a client that keeps its connection open and sends nothing holds the
server for ever. The liveness properties therefore assume of clients that they
go on sending or leave, and go on reading or leave. `TlsServer`: the same, per
step. `TlsRecord`: TCP delivers, the reader reads. The safety properties need
none of it.

**Bounds**, by name: `Clients`, `Backlog`, `SockBuf`, `Last` (connections),
`MaxRecords`, `Longest` (bytes hashed), `MaxArgs`, `MaxSteps` (of a run),
`MaxDefined` (functions; the bound on them in `ScriptEngine`'s `TypeOK` is this one, as the
code has none), `MaxTurns` (of a loop). `RecvCap`, `SendCap`,
`FileCap`, `LineMax`, `JIT_CODE_SIZE`, `Slots`, `LastRegister`, `CACHE_MAX`,
`MAX_TOKENS`, `TEXT_SIZE`, `OBJ_MAX_PROPS`, `JSON_SIZE`, `CONCAT_LEFT`, `CONCAT_MAX`,
`PRINT_SIZE`, `PRINT_LEFT`, `BufLen`, `DER_MAX`, `VER_MAX`, `INT_MAX`,
`DECRYPTED_SIZE`, `PT_MAX`, `SEED_SIZE`, `BN_MAX_WORDS` are limits of the code, scaled down.

## 4. What is proved

Every theorem holds for all constants that satisfy the named assumptions of the
modules (`TcpAssumption`, `RoutingAssumption`, `HttpAssumption`,
`StreamAssumption`, `RecordAssumption`, `TlsAssumption`, `BlankAssumption`,
`MainAssumption`, `EngineAssumption`, `WordAssumption`, `RsaAssumption`,
`KeyFileAssumption`, `PrfAssumption`, `LoopAssumption`, `JitAssumption`,
`LexerAssumption`): any
number of clients, connections, records, arguments and expressions, and any sizes. TLC
evaluates each assumption on the instances of section 3. Where a theorem needs
more, it is a hypothesis of the theorem and said below. Each invariant was checked
with TLC on such instances before it was proved.

*HttpServerProofs.*
- `TypeCorrect`. `TypeOK` is not inductive alone: the router's length is bounded
  by the file buffer only while a response is being built (`RoutedLength`).
- `CleanBuffers`, under `Roomy` (a header and a full file buffer fit the send
  buffer, as they do with 1 MB and 512 KB). The invariant says, per buffer, that
  whatever is not zero lies within the length the cleanup will wipe by, and at
  which places of the handler that may be. The receive buffer has its `got`, the
  send buffer its `respLen`, the file buffer its `res.len`.
- `DescriptorDiscipline`. The strengthening (`ConnInv`) ties connection states
  to the backlog: those queued are exactly those in it, each once.
- `Provenance`, without `Roomy`: `OwnFile` and `OwnSend` say that what is about
  to be sent was written for the current client, whatever else is in the buffer.
- `WipeLengths`, for any sizes and any `StackGarbage`: from the routing on, the length in
  `res` is one that fits the file buffer, which `RoutingAssumption` says of every
  response the router can make.
- `WholeResponses`, from an invariant on what has been written to whom: nothing
  before the handler sends, `sent` bytes during it, all of it afterwards unless
  the client is gone.
- `Refinement`: every step of `HttpServer` maps to a step of `RequestService` or
  to a stutter; `Close` is `Dismiss`, a wipe beyond its buffer `BreakDown`. The
  proof is of the safety part; that everyone is dismissed stays with TLC.

*TlsRecordProofs.* `TypeCorrect`; `RecordsAreRead` and `FailureMeansEnd`, both
under `Fits`: every payload, wrapped, is shorter than the length field can say.
Without it they are false, which `record_limit` shows; `PayloadsFit` derives
`Fits` from the limit of `tls.h:67`. The invariant (`RecordInv`) says that the
records lie in the stream one behind the other, and that the reader has read
some of them whole and is in the header or in the payload of the next one.

*TlsServerProofs.* `TypeCorrect`, `Agreement`, `Wiping`, `Protection`. None of
them is inductive: that a MAC agrees depends on every message before it. The
invariant states, for each step of the handshake, what each side has sent,
hashed and counted: the server's wire (`WireContent`, `WireLength`), its session
(`SessInv`), what is under way to it (`QueueInv`) and the client (`ClientInv`).
Cryptography is symbolic and collision-free there. `BlankAssumption` says that a
wiped field is no key and no request. `Wiping` is `OnlyTheKeyStays`: the secrets that the
handshake made are gone between connections, and the private key that
`tls_session_init` loaded is not. The first part goes by the exits, which all lead
through `tls_session_cleanup` once there is something to clear; the second says that what
was sent was sent with the key loaded (`KeyInv`).

`Refinement`: every step of `TlsServer` maps to a step of
`SecureExchange` or to a stutter. An answer a client takes is the server's, to
what this client asked, and is taken once. It uses the invariant above, to
exclude the steps in which a record would be refused.

*Sha256StreamProofs.* `TypeCorrect`, `Complete`, `DigestCorrect` from one
invariant: block `b` of the state holds bytes `64b - 63 .. 64b`, the partial
block the bytes after them. `Division` is the arithmetic of an update for all
lengths, `UpdateInv` and `FinishInv` the two steps. Padding to one block or two
is the case split of `FinishInv`.

*ServerMainProofs.* `TypeCorrect`, `Settings`, `Announced`. The invariant of the
loop over `argv` (`ReadTo`) gives each setting as a function of the arguments
read so far. Whether a word is an option or the value of the option before it
depends on all the words before, so `SettingsAsGiven` counts a parity; `ValueNext`
carries it over one turn. `Announced` says when the banner and the socket agree: the socket
is always one of those announced, and all of them exactly if `--http` or `--https` is used
as an option, of which `announced` shows the case without. The assumption that a text is no option
is needed: a value that reads like an option is still a value.

*ScriptEngineProofs.* `TypeCorrect`, `Binding`, `NothingLeaks`, `OutputFits`.
`NothingIsLeft` alone is not inductive: that leaving a run frees exactly the
scopes it made needs that the frames hold different scopes and that the scopes
in `live` are those of the frames (`HeldNow`, `Nesting`).

*KeyExchangeProofs*, first part: `Derivation`, under `Hashes` (the hash function
maps octets to digests of its size; nothing else is assumed of it): `PrfAsInRfc`
for secrets, seeds and outputs of any length. The invariant (`ExpansionInv`)
gives the output as a beginning of `P_hash`, and, until the last block, `A` as
the `A(i)` of the next block. `A(i)` is recursive; that its equation has a
solution and that all of it are texts is proved by induction over the numbers
(`Induction`, `SequenceExists`), which is itself proved, for
sets instead of predicates, from the well-foundedness of finite sets.

*KeyExchangeProofs*, second part (it comes first in the module): `Division`,
`Exponentiation`, for words of any width and operands of any size that fits.
The value of a number is a sum over its words (`SumsProperties`, `WordChanged`).
Each word operation is then a fact about that sum: `Trim`, `Doubles` for
`bn_shl1` with its carries, `Compares`, `Subtracts` for `bn_sub` with its borrows,
`FromBytes`, and `Multiplies`, whose loop has the invariant that a row so far
plus its carry is the product so far (`RowProperties`, `RowsEquation`).
`BitDown` is one bit of the division: the remainder doubles, takes the bit, and
is reduced by at most one modulus because it was less than it (`NextRemainder`).
`PowerOfTheBitsSeen` is not inductive: between a multiplication and the end of its
division the power is in none of the variables. `BigNumInv` says for each place
of the loop what is being divided, that it fits the array (`PowersFit`), and that
results of a division are less than the modulus.

*KeyExchangeProofs*, third part: `Decryption` is `PaddingDecides`. The bytes
written by `bn_to_bytes` are the digits of the result in base 256 (`ByteDown`
for one of them), a number has one row of digits of a given length
(`NumberDetermines`), and it fits because the result is less than the modulus
(`ResultIsLess`, `KeyBytes`). So the block the code looks at is the only one that the
client may have encrypted; where its data begins is the first zero behind the
block type (`SeparatorProperties`, `BlockOfPadded`, `PaddedOfBlock`). Of RSA
itself nothing is used: the theorem is about every power. It speaks of ciphertexts that fit the
array of words; that no longer one is decided on is part of it, and that those and no
others end as `undefined` is part of `TypeCorrect` (`ReadBaseKeeps`).

*KeyExchangeProofs*, fourth part: `KeyLoading` is `KeyAsWritten`, for keys of any
numbers without leading zeros, lines of any width, and any number of bytes lost
from the end; `KeyFileAssumption` says that the numbers together take less than
65536 bytes, since `DerLength` stops at two bytes. The invariant (`LoadInv`) goes by
the place in the file. Behind `m` characters of the body, `Taken(width, m)` of
them are no line ends (`TakenNext`), and after `c` of those the first `3c div 4`
bytes have been decoded and `buf` holds the remaining two, four or six bits of
the next one (`Decodes`); `NextSextet` carries that over one turn of the loop, by
the place of the character among the four of its three bytes. Behind `k` integers
`p` is at the place where their encodings end (`Place`), and what
`asn1_read_length` finds there is the length written there. A refused file lacks
something (`Refused`): the decoder refuses only what is longer than `der`, the reader
only what was cut off or does not fit its buffer. That every file with
something missing is refused needs the converse: six numbers have been read,
so six are there (`LostFromTheEnd`).

`TypeCorrect` of `KeyExchange` collects the lengths: of the numbers from `BigNumInv`,
of what is decoded and read from `LoadInv`.

*LanguageProofs, the loop compiler.* `TypeCorrect` and `Refinement`: for any expressions, loops and scopes,
and any number of registers, variables and bytes. The definitions over
expressions are recursive functions; that their equations have a solution
(`Recursion`, `SolutionExists`), and what holds of all expressions
(`HeightInduction`), is proved by induction on the height, from the least number
of a set. `ExpressionComputes` is the compiler's correctness: the code of an
expression leaves its value (`js_eval` over the scope that the cells stand for)
in its register, and neither the cells nor a register below it change; the registers
above it may, xmm6 included, which is why the second operand goes into the next
register (`OperationComputes`). `Remainder` is the arithmetic of `%`.
`AssignKeeps` and `BodyKeeps` carry that over statements: the scope that the cells
stand for (`Kept`) becomes what `Execute` makes of it, because no two names share a
cell (`WithNameIs`, `VarNamesAre`); that holds while all names have a cell, which
`FullTable` derives from the number of names. `CondTests` is the conditional jump.
The invariant (`Inv`) says that native code is the loop's, over a machine with a
cell for each of its names. Without `Within` the refinement is false, as section 5
says of the registers.

*LanguageProofs, the lexer.* `TokensCorrect` is `TokensOfTheText` for `LexSpec`: any text
of any characters, any digits and letters that are no blanks, quotes or
operators (`LexerAssumption`), and any limits. `ReadTo` compares what a turn scans
with the longest lexeme at the place: `NumberRead` and `WordRead` show that no
longer part is a lexeme, because it has a character of another kind;
`OperatorRead` goes by the number of characters, since `===` begins with `==` and that with
`=`; `StringRead` needs that the scan, which jumps over the character behind a
backslash, meets exactly the characters in front of which stands an even number
of backslashes (`EscapedStep`, `StringEndFinds`, by induction from the end of
the text). A text that breaks off behind a backslash is where the scan ends one
place too far. `LinePassed` and `BlockPassed` are the comments. The invariant
(`LexInv`) says that the lexemes of the text are those whose tokens are in the
list, none of them too large, followed by those from the place on
(`LexemesFrom`). In `Script` the steps of `pc = "scan"` are those of `Tokenize`
from `LexInit`, so that the run checks the same property on its texts.

Model-checked only: liveness, which needs fairness; and `Script` behind the
lexer (`Parser`, `Evaluator`, `JavaScript`), whose definitions recurse over tokens and trees
with RECURSIVE operators, which the provers do not take. That keeps
`Script`'s `TypeOK`, `ParsesWhatIsMeant`, `NothingPassedOver` and
`RunsAsJavaScript` with TLC.

## 5. Observations

Violated by what the code does, each with its counterexample:
- `record_limit`: `tls_write` puts a whole response into one record. Beyond
  2^14 bytes that is more than a record may hold (`tls.h:67`), beyond 2^16 its
  length field no longer says how long it is. The trace is of a response, after
  ChangeCipherSpec; handshake messages are short.
- `announced`: README.md:78 ("Both") and the usage text (`main.c:260`, "default: both")
  announce two addresses, as the banner does; `main` serves HTTPS only, as its comment
  says (`main.c:310`). `Announced` proves that this is the one case.
- `script_cache`: a cached script is not invalidated if its file changes, as
  `jsengine.c:49` and `65` say: `file_mtime` is never set. `CacheBindsPath` states what
  does hold.
- `script_scopes`: functions keep the scope of a call or `for` statement that
  `env_free` has freed (`eval.c:284`, `414`), and use it as parent when called.

Seen while translating, without a run of their own:
- The cleanup wipes `res.body_len` bytes of the file buffer also if the body
  was a constant or `res` was never assigned (`main.c:154`); README.md:67 says
  exactly the bytes used are zeroed. `http_safety` shows that nothing is left, and that
  the wipe can leave the buffer only if `res` was never assigned.
- `tls_session_cleanup` ("Zero out sensitive data", `record.c:256`) zeroes the secrets and
  keys of the connection; the private key (`tls.h:136`), the IVs and the randoms stay
  on the stack until the next session is initialised (`OnlyTheKeyStays`).
- The length of the encrypted secret is the client's (`handshake.c:329`) and is compared neither
  with the message's nor with the key's. Above 512 bytes `bn_from_bytes` writes behind
  `words[]` (`bignum.c:56-63`): `ReadBase` ends as `undefined`, for those and no others (`TypeOK`).
- `jsengine_template` compares `js_tokenize` with 0 (`jsengine.c:238`), which it
  never returns because the end mark counts; no expression is rendered.
- A loop that `jit_can_compile` accepts and that then needs more registers than
  there are is not executed at all: `js_eval` returns whatever happened
  (`eval.c:259-262`), while `jit.h:32` speaks of falling back to the interpreter.
  `RefinesWhileLoop` is stated for loops `Within` the limits for that reason.
- Mismatches of MAC and `verify_data` are logged and not refused.
- `closures[4096]` (`eval.c:121`) has no bound check and no reset, so that a
  process whose scripts define enough functions writes past it.
- Lexer: exactly `MAX_TOKENS` tokens are accepted and the end mark is written
  behind the table (`lexer.c:167`); the text of a token of 256 characters or more
  is copied beyond its field; a backslash at the end of an open string reads on
  behind the text. `TokensOfTheText` says when each happens.
- Parser: `a - b - c` groups to the right (`parser.c:255`); shifts and
  bitwise operators are one level, looser than equality; `f(x).y` is not
  parsed as a member; the parser goes beyond the end mark after a `let` or a dot
  that ends the source, and without a report only then (`NothingPassedOver`).
- Evaluator: `return` inside `if` or a loop does not end the function; a function
  without `return` gives its last statement's value; a declaration or parameter
  whose name exists further up the chain changes that one (`eval.c:84-92`);
  `+` cuts its left text at 511 bytes and the result at 1023 (`eval.c:127-137`);
  an unknown `Math.` function evaluates its first argument and gives `undefined`
  (`eval.c:326-335`); any number below `num_closures` calls that function, one of an
  earlier run included;
  functions are numbers, so that a number can be called; `&&` and `||`
  give booleans; arguments beyond the parameters are not evaluated; `console.log`
  prints, and `push` appends, each argument before the next is evaluated.
- `js_mod` (`math_ops.asm:49`, "JS % operator") rounds down, so that `-1 % 2` is
  1; in JavaScript it is -1. `%` by zero or a negative number is left open.
- An array of numbers is printed through the one static buffer that its numbers
  are printed to (`value.c:204-219`), an array with an item longer than what is left of that
  buffer is ended behind it, and a JSON text longer than its buffer goes on behind
  it (`value.c:227-266`). All of these are left open in the model.
- `pms_len` is not compared with 48, nor the version in the secret
  (`handshake.c:342-349` only prints it); the length of the outer ASN.1
  sequence is read and not used.

## 6. Not modelled, and the plan

Not modelled: AES rounds and CPU dispatch (pure functions of fixed size or done
once at start, tested with vectors); the unused arena; the interactive shell
(terminal input and output around the evaluator); pages, certificates and tests.
Partly modelled parts are listed in `PROJECT.json` with what is missing: mostly
fractions and rounding of doubles, the results of `Math.sqrt` and `Math.random` and of the
case conversions of strings (whatever uses them is left open), mime types, and functions
nothing calls.

The order of work was: the plain server and its proofs, TLS and records, the
hash and its proof, arithmetic, start-up, the script engine, the compiler; then
the script language from text to output, and loading, decryption and derivation
of keys; then the proofs. What could follow is more of the values of the script
language (fractions, conversions of strings) and the functions listed as partly modelled.

------------------------------ MODULE ConfigForms ------------------------------
(***************************************************************************)
(* The structured editors of the configuration page (web/src/server/config):*)
(* one group of settings is on screen at a time, and its editor works on    *)
(* lists of records by POSITION: the open cards and the decoys put away for *)
(* a WEB virtual host are kept per index, while records are duplicated,     *)
(* deleted and added around them.                                           *)
(*                                                                          *)
(* Records carry an identity that the code does not have ("id"), and the    *)
(* ghosts "kept" and "opened" say, by identity, what the admin put away and *)
(* which cards the admin opened.                                            *)
(***************************************************************************)
EXTENDS Naturals, Sequences, FiniteSets, SequencesExt

CONSTANTS
    MaxRecords,     \* bound: records in a list
    MaxFormClicks   \* bound: inputs and clicks

ASSUME ConfigFormsAssumption == {MaxRecords, MaxFormClicks} \subseteq Nat

VARIABLES
    form,       \* StructuredSettingsForm with the editor it shows, and the draft
    formLeft    \* clicks the bound still allows

formVars == <<form, formLeft>>

Groups == {"routing", "upstreams", "tls", "listeners", "web", "timeouts"}
ListOf == [vhosts |-> "web", listeners |-> "listeners", upstreams |-> "upstreams"]
RecordLists == DOMAIN ListOf

DecoyModes == {"http_upstream", "static_directory"}
TypedTexts == {"", "typed"}
WebCarriers == <<"https", "https-lanes", "websocket">>
ModeFlags == {"classic", "tls"}
RouteFlags == {"use_middle_proxy", "me2dc_fallback"}

-----------------------------------------------------------------------------
(* configCatalog.helpers.ts, StructuredSettingsForm.tsx                     *)

\* activeQuery: the search works in advanced mode only.
Searching(f) == f.advanced /\ f.query

\* What fills the section: a group none of whose fields is in the document is
\* empty, except the two whose lists may be started from nothing.
EditorOnScreen(f) ==
    CASE Searching(f) -> "generic"
      [] ~Searching(f) /\ f.group \in f.present \union {"upstreams", "web"} -> f.group
      [] OTHER -> "empty"

Showing(list) == EditorOnScreen(form) = ListOf[list]

SetConfigValue(f, key, value) == [f EXCEPT ![key] = value]

\* A change of editor mounts the new one, with its first card open.
Mounted(f, before) ==
    IF EditorOnScreen(f) = EditorOnScreen(before) THEN f
    ELSE LET list == {l \in RecordLists : ListOf[l] = EditorOnScreen(f)}
         IN  [f EXCEPT !.expanded = {1}, !.notice = FALSE,
                       !.opened = UNION {{f[l][i].id : i \in {1} \intersect DOMAIN f[l]}
                                         : l \in list}]

-----------------------------------------------------------------------------
(* Records: duplicate, delete, add, and the open cards (ListenersEditor,    *)
(* UpstreamsEditor, WebEditor)                                              *)

InsertedAfter(s, i, x) == InsertAt(s, i + 1, x)

ExpandedWithout(expanded, i) ==
    {IF j > i THEN j - 1 ELSE j : j \in expanded \ {i}}

\* JSON clone, or a spread of a flat record.
Cloned(f, record) == [record EXCEPT !.id = f.nextId]

DuplicateRecord(f, list, i) ==
    [f EXCEPT ![list] = InsertedAfter(f[list], i, Cloned(f, f[list][i])),
              !.expanded = {i + 1}, !.opened = {f.nextId}, !.nextId = @ + 1]

DeleteRecord(f, list, i) ==
    [f EXCEPT ![list] = RemoveAt(f[list], i),
              !.expanded = ExpandedWithout(@, i),
              !.opened = @ \ {f[list][i].id}]

AddRecord(f, list, record) ==
    [f EXCEPT ![list] = Append(@, record), !.expanded = {Len(f[list]) + 1},
              !.opened = {f.nextId}, !.nextId = @ + 1]

ToggleCard(f, list, i) ==
    LET id == f[list][i].id
    IN  IF i \in f.expanded
        THEN [f EXCEPT !.expanded = @ \ {i}, !.opened = @ \ {id}]
        ELSE [f EXCEPT !.expanded = @ \union {i}, !.opened = @ \union {id}]

-----------------------------------------------------------------------------
(* ListenersEditor.tsx                                                      *)

NewListener(f) ==
    LET used == {f.listeners[i].port : i \in DOMAIN f.listeners}
        free == {p \in 8443..(8443 + Len(f.listeners)) : p \notin used}
    IN  [id |-> f.nextId, transport |-> "mtproxy", synlimit |-> FALSE,
         announce |-> "none", cidrs |-> "none",
         port |-> IF 443 \notin used THEN 443
                  ELSE CHOOSE p \in free : \A q \in free : p <= q]

ListenerForTransport(record, transport) ==
    IF transport = "web"
    THEN [record EXCEPT !.transport = "web", !.announce = "none", !.synlimit = FALSE,
                        !.cidrs = IF @ \in {"none", ""} THEN "127.0.0.1/32" ELSE @]
    ELSE [record EXCEPT !.transport = "mtproxy", !.cidrs = "none"]

ListenerFieldsForRecord(record, advanced) ==
    IF record.transport = "web" THEN {"transport", "port", "cidrs"}
    ELSE {"transport", "port", "announce"} \union (IF advanced THEN {"synlimit"} ELSE {})

EditListener(f, i, key, value) ==
    IF key = "transport"
    THEN [f EXCEPT !.listeners[i] = ListenerForTransport(@, value)]
    ELSE [f EXCEPT !.listeners[i][key] = value]

ListenerInputs ==
    [transport |-> {"mtproxy", "web"}, port |-> {443, 8443},
     announce |-> TypedTexts, cidrs |-> TypedTexts, synlimit |-> BOOLEAN]

-----------------------------------------------------------------------------
(* UpstreamsEditor.tsx                                                      *)

NewUpstream(f) ==
    [id |-> f.nextId, type |-> "direct", enabled |-> TRUE, address |-> "none"]

UpstreamFieldsForRecord(record, advanced) ==
    {"type", "enabled"} \union
    (IF advanced \/ record.type = "socks5" \/ record.address # "none"
     THEN {"address"} ELSE {})

UpstreamInputs ==
    [type |-> {"direct", "socks5"}, enabled |-> BOOLEAN, address |-> TypedTexts]

-----------------------------------------------------------------------------
(* WebEditor.tsx                                                            *)

NewWebVhost(f) ==
    [id |-> f.nextId, filled |-> FALSE,
     decoy |-> [mode |-> "http_upstream", upstream |-> "default", directory |-> "none"]]

\* Host, path, address and profiles are "filled"; the decoy has its target.
WebVhostReady(v) ==
    /\ v.filled
    /\ (IF v.decoy.mode = "http_upstream" THEN v.decoy.upstream ELSE v.decoy.directory)
            \notin {"", "none"}

WebReady(f) ==
    /\ \E i \in DOMAIN f.listeners : f.listeners[i].transport = "web"
    /\ f.vhosts # << >>
    /\ \A i \in DOMAIN f.vhosts : WebVhostReady(f.vhosts[i])

\* What a mode starts with when nothing was put away for it.
DecoyForMode(decoy, mode) ==
    IF mode = "static_directory"
    THEN [mode |-> mode, upstream |-> "none",
          directory |-> IF decoy.directory = "none" THEN "default" ELSE decoy.directory]
    ELSE [mode |-> mode, directory |-> "none",
          upstream |-> IF decoy.upstream = "none" THEN "default" ELSE decoy.upstream]

CurrentDecoyDrafts(f) ==
    [i \in DOMAIN f.vhosts |-> IF i \in DOMAIN f.drafts THEN f.drafts[i] ELSE << >>]

PutAway(drafts, decoy) ==
    [m \in DOMAIN drafts \union {decoy.mode} |->
        IF m = decoy.mode THEN decoy ELSE drafts[m]]

OnDecoyModeChange(f, i, mode) ==
    LET v == f.vhosts[i]
        mine == PutAway(CurrentDecoyDrafts(f)[i], v.decoy)
        brought == IF mode \in DOMAIN mine THEN mine[mode] ELSE DecoyForMode(v.decoy, mode)
    IN  [f EXCEPT !.drafts = [CurrentDecoyDrafts(f) EXCEPT ![i] = mine],
                  !.vhosts[i].decoy = brought,
                  !.kept[v.id] = PutAway(@, v.decoy)]

\* Mutant: the decoys put away stay where they are when a virtual host goes.
VhostGoesAlone(f, i) == DeleteRecord(f, "vhosts", i)

DuplicateVhost(f, i) ==
    LET drafts == CurrentDecoyDrafts(f)
        kept == f.kept[f.vhosts[i].id]
        g == DuplicateRecord(f, "vhosts", i)
    IN  [g EXCEPT !.drafts = InsertedAfter(drafts, i, drafts[i]),
                  !.kept = [id \in DOMAIN @ \union {f.nextId} |->
                              IF id = f.nextId THEN kept ELSE @[id]]]

DeleteVhost(f, i) ==
    [DeleteRecord(f, "vhosts", i) EXCEPT !.drafts = RemoveAt(CurrentDecoyDrafts(f), i)]

AddVhost(f) ==
    [AddRecord(f, "vhosts", NewWebVhost(f)) EXCEPT
        !.drafts = Append(CurrentDecoyDrafts(f), << >>),
        !.kept = [id \in DOMAIN @ \union {f.nextId} |->
                    IF id = f.nextId THEN << >> ELSE @[id]]]

CarrierOrderFromFallback(fallback) ==
    <<fallback>> \o SelectSeq(WebCarriers, LAMBDA c : c # fallback)

MoveArrayItem(items, from, to) == InsertAt(RemoveAt(items, from), to, items[from])

SetCarriers(f, order) == SetConfigValue(f, "carriers", order)

\* << >> stands for web.carriers = false: one fixed carrier.
CarrierEdits(f) ==
    LET order == f.carriers
        n == Len(order)
    IN  IF n = 0 THEN {CarrierOrderFromFallback("https")}
        ELSE {<< >>}
             \union {MoveArrayItem(order, i, i - 1) : i \in 2..n}
             \union {MoveArrayItem(order, i, i + 1) : i \in 1..(n - 1)}
             \union (IF n = 1 THEN {} ELSE {RemoveAt(order, i) : i \in 1..n})
             \union {Append(order, c) : c \in ToSet(WebCarriers) \ ToSet(order)}

-----------------------------------------------------------------------------
(* RoutingEditor.tsx, MeEditor.tsx, TlsEditor.tsx, ConfigFieldControls.tsx  *)

Flip(flags, x) == IF x \in flags THEN flags \ {x} ELSE flags \union {x}

\* The last client mode answers with a notice instead.
PressMode(f, mode) ==
    IF f.flags \intersect ModeFlags = {mode} THEN [f EXCEPT !.notice = TRUE]
    ELSE [f EXCEPT !.notice = FALSE, !.flags = Flip(@, mode)]

RouteToggleEnabled(f, flag) ==
    flag = "me2dc_fallback" => "use_middle_proxy" \in f.flags

\* Object.fromEntries: a domain typed twice keeps its first place and its last
\* target.
FromEntries(entries) ==
    LET First(i) == \A j \in 1..(i - 1) : entries[j][1] # entries[i][1]
        LastOf(d) == CHOOSE j \in DOMAIN entries :
            entries[j][1] = d /\ \A k \in DOMAIN entries : entries[k][1] = d => k <= j
        firsts == {i \in DOMAIN entries : First(i)}
        at == SetToSortSeq(firsts, LAMBDA i, j : i < j)
    IN  [n \in DOMAIN at |-> <<entries[at[n]][1], entries[LastOf(entries[at[n]][1])][2]>>]

MaskEdits(masks) ==
    UNION {{RemoveAt(masks, i)}
           \union {FromEntries([masks EXCEPT ![i][1] = d]) : d \in TypedTexts}
           \union {[masks EXCEPT ![i][2] = t] : t \in TypedTexts} : i \in DOMAIN masks}
    \union (IF \E i \in DOMAIN masks : masks[i][1] = "" THEN {}
            ELSE {Append(masks, <<"", "">>)})

DomainEdits(domains) ==
    UNION {{RemoveAt(domains, i)} \union {[domains EXCEPT ![i] = t] : t \in TypedTexts}
           : i \in DOMAIN domains}
    \union {Append(domains, "")}

\* FieldControl of a number: what cannot be read as one is not stored.
NumberTyped(kind, value, input) ==
    IF \/ value = "unsafe" /\ kind = "integer"
       \/ input \in {"", "letters"}
       \/ input \in {"unsafe", "1.5"} /\ kind = "integer"
    THEN value ELSE input

\* JSONControl: parsed when the field is left.
JsonBlur(f) ==
    IF f.json.text = "not json" THEN [f EXCEPT !.json.invalid = TRUE]
    ELSE [f EXCEPT !.map = f.json.text, !.json.invalid = FALSE]

JsonTyped(f, text) == [f EXCEPT !.json = [text |-> text, invalid |-> FALSE]]

-----------------------------------------------------------------------------

Vhost(id) ==
    [id |-> id, filled |-> TRUE,
     decoy |-> [mode |-> "http_upstream", upstream |-> "stored", directory |-> "none"]]

\* The card of the list on screen that is open at first, by its record.
FirstOpened(g, p) ==
    CASE g = "web" -> {1} [] g = "listeners" /\ g \in p -> {3} [] OTHER -> {}

FirstForm(g, p) ==
    [group |-> g, advanced |-> FALSE, query |-> FALSE, present |-> p,
     vhosts |-> <<Vhost(1), Vhost(2)>>, drafts |-> << >>,
     kept |-> [id \in 1..2 |-> << >>],
     listeners |-> <<[id |-> 3, transport |-> "mtproxy", synlimit |-> FALSE,
                      announce |-> "none", cidrs |-> "none", port |-> 443]>>,
     upstreams |-> << >>, enabled |-> FALSE, carriers |-> << >>,
     flags |-> {"tls", "use_middle_proxy"}, notice |-> FALSE,
     domains |-> << >>, masks |-> << >>, number |-> "1",
     map |-> "{}", json |-> [text |-> "{}", invalid |-> FALSE],
     expanded |-> {1}, nextId |-> 4, opened |-> FirstOpened(g, p)]

FormInit ==
    /\ \E g \in {"web", "listeners"}, p \in {Groups, {"routing"}} : form = FirstForm(g, p)
    /\ formLeft = MaxFormClicks

FormClick(f) ==
    /\ formLeft > 0 /\ formLeft' = formLeft - 1
    /\ form' = Mounted(f, form)

SelectGroup(g) == g # form.group /\ FormClick([form EXCEPT !.group = g, !.query = FALSE])

SwitchMode == FormClick([form EXCEPT !.advanced = ~@])

TypeQuery == form.advanced /\ FormClick([form EXCEPT !.query = ~@])

\* ConfigPage seeds another document: after a save, a reload, or a rebase, in
\* which a record may be gone. WebEditor mounts again, the others do not.
DocumentReplaced(gone) ==
    /\ gone => form.vhosts # << >> /\ Len(form.listeners) > 1
    /\ LET f == [form EXCEPT !.drafts = << >>, !.kept = [id \in DOMAIN @ |-> << >>],
                             !.vhosts = IF gone THEN Tail(@) ELSE @,
                             !.listeners = IF gone THEN Tail(@) ELSE @,
                             !.expanded = IF Showing("vhosts") THEN {1} ELSE @]
       IN  FormClick([f EXCEPT !.opened =
             UNION {{f[l][i].id : i \in f.expanded \intersect DOMAIN f[l]}
                    : l \in {x \in RecordLists : Showing(x)}}])

CardToggled(list, i) ==
    Showing(list) /\ i \in DOMAIN form[list] /\ FormClick(ToggleCard(form, list, i))

ListenerDuplicated(i) ==
    /\ Showing("listeners") /\ i \in DOMAIN form.listeners
    /\ Len(form.listeners) < MaxRecords
    /\ FormClick(DuplicateRecord(form, "listeners", i))

ListenerDeleted(i) ==
    /\ Showing("listeners") /\ i \in DOMAIN form.listeners /\ Len(form.listeners) > 1
    /\ FormClick(DeleteRecord(form, "listeners", i))

ListenerAdded ==
    /\ Showing("listeners") /\ Len(form.listeners) < MaxRecords
    /\ FormClick(AddRecord(form, "listeners", NewListener(form)))

ListenerEdited(i) ==
    /\ Showing("listeners") /\ i \in form.expanded \intersect DOMAIN form.listeners
    /\ \E key \in ListenerFieldsForRecord(form.listeners[i], form.advanced) :
        \E value \in ListenerInputs[key] : FormClick(EditListener(form, i, key, value))

UpstreamDuplicated(i) ==
    /\ Showing("upstreams") /\ i \in DOMAIN form.upstreams
    /\ Len(form.upstreams) < MaxRecords
    /\ FormClick(DuplicateRecord(form, "upstreams", i))

UpstreamDeleted(i) ==
    /\ Showing("upstreams") /\ i \in DOMAIN form.upstreams
    /\ FormClick(DeleteRecord(form, "upstreams", i))

UpstreamAdded ==
    /\ Showing("upstreams") /\ Len(form.upstreams) < MaxRecords
    /\ FormClick(AddRecord(form, "upstreams", NewUpstream(form)))

UpstreamEdited(i) ==
    /\ Showing("upstreams") /\ i \in form.expanded \intersect DOMAIN form.upstreams
    /\ \E key \in UpstreamFieldsForRecord(form.upstreams[i], form.advanced) :
        \E value \in UpstreamInputs[key] :
            FormClick([form EXCEPT !.upstreams[i][key] = value])

VhostDuplicated(i) ==
    /\ Showing("vhosts") /\ i \in DOMAIN form.vhosts /\ Len(form.vhosts) < MaxRecords
    /\ FormClick(DuplicateVhost(form, i))

VhostDeleted(i) ==
    Showing("vhosts") /\ i \in DOMAIN form.vhosts /\ FormClick(DeleteVhost(form, i))

VhostAdded ==
    Showing("vhosts") /\ Len(form.vhosts) < MaxRecords /\ FormClick(AddVhost(form))

\* WebVhostFields: the texts of an open card, and its decoy mode.
VhostTyped(i) ==
    /\ Showing("vhosts") /\ i \in form.expanded \intersect DOMAIN form.vhosts
    /\ \/ \E b \in BOOLEAN : FormClick([form EXCEPT !.vhosts[i].filled = b])
       \/ \E t \in TypedTexts :
            FormClick(IF form.vhosts[i].decoy.mode = "http_upstream"
                      THEN [form EXCEPT !.vhosts[i].decoy.upstream = t]
                      ELSE [form EXCEPT !.vhosts[i].decoy.directory = t])

DecoyModeChosen(i, mode) ==
    /\ Showing("vhosts") /\ i \in form.expanded \intersect DOMAIN form.vhosts
    /\ mode # form.vhosts[i].decoy.mode
    /\ FormClick(OnDecoyModeChange(form, i, mode))

WebToggled ==
    /\ Showing("vhosts") /\ (form.enabled \/ WebReady(form))
    /\ FormClick([form EXCEPT !.enabled = ~@])

CarriersEdited ==
    Showing("vhosts") /\ \E order \in CarrierEdits(form) : FormClick(SetCarriers(form, order))

ModePressed(mode) == EditorOnScreen(form) = "routing" /\ FormClick(PressMode(form, mode))

RouteToggled(flag) ==
    /\ EditorOnScreen(form) = "routing" /\ RouteToggleEnabled(form, flag)
    /\ FormClick([form EXCEPT !.flags = Flip(@, flag)])

TlsEdited ==
    /\ EditorOnScreen(form) = "tls"
    /\ \/ \E d \in DomainEdits(form.domains) :
            Len(d) <= MaxRecords /\ FormClick([form EXCEPT !.domains = d])
       \/ \E m \in MaskEdits(form.masks) :
            Len(m) <= MaxRecords /\ FormClick([form EXCEPT !.masks = m])

\* GenericFields: the plain groups, and everything while searching. Here a mode
\* or the decoy's mode is a field like any other.
GenericEdited ==
    /\ EditorOnScreen(form) \in {"generic", "timeouts"}
    /\ \/ \E input \in {"", "letters", "1.5", "2", "unsafe"}, kind \in {"integer", "decimal"} :
            FormClick([form EXCEPT !.number = NumberTyped(kind, @, input)])
       \/ \E text \in {"{}", "[1]", "not json"} : FormClick(JsonTyped(form, text))
       \/ FormClick(JsonBlur(form))
       \/ /\ Searching(form)
          /\ \E m \in ModeFlags : FormClick([form EXCEPT !.flags = Flip(@, m)])
       \/ /\ Searching(form)
          /\ \E i \in DOMAIN form.vhosts, m \in DecoyModes :
                FormClick([form EXCEPT !.vhosts[i].decoy.mode = m])

FormNext ==
    \/ \E g \in Groups : SelectGroup(g)
    \/ SwitchMode \/ TypeQuery
    \/ \E gone \in BOOLEAN : DocumentReplaced(gone)
    \/ \E i \in 1..MaxRecords :
        \/ \E list \in RecordLists : CardToggled(list, i)
        \/ ListenerDuplicated(i) \/ ListenerDeleted(i) \/ ListenerEdited(i)
        \/ UpstreamDuplicated(i) \/ UpstreamDeleted(i) \/ UpstreamEdited(i)
        \/ VhostDuplicated(i) \/ VhostDeleted(i) \/ VhostTyped(i)
        \/ \E mode \in DecoyModes : DecoyModeChosen(i, mode)
    \/ ListenerAdded \/ UpstreamAdded \/ VhostAdded
    \/ WebToggled \/ CarriersEdited \/ TlsEdited \/ GenericEdited
    \/ \E mode \in ModeFlags : ModePressed(mode)
    \/ \E flag \in RouteFlags : RouteToggled(flag)

FormSpec == FormInit /\ [][FormNext]_formVars

-----------------------------------------------------------------------------
(* Properties                                                               *)

(***************************************************************************)
(* Every decoy put away under a virtual host's position is the last one the *)
(* mode selector put away for that very virtual host: duplicating, deleting *)
(* and adding hosts, searching, and replacing the document never hand one   *)
(* host's upstream or directory to another (WebEditor's decoyDrafts).       *)
(***************************************************************************)
DecoysStayWithTheirHost ==
    \A i \in DOMAIN form.vhosts :
        CurrentDecoyDrafts(form)[i] = form.kept[form.vhosts[i].id]

(***************************************************************************)
(* The open cards of the list on screen are the records the admin opened    *)
(* and did not close or delete, although cards are numbered by position     *)
(* (expandedIndexes, expandedVhosts).                                       *)
(***************************************************************************)
CardsFollowRecords ==
    \A list \in RecordLists : Showing(list) =>
        {form[list][i].id : i \in form.expanded \intersect DOMAIN form[list]}
            = form.opened

=============================================================================

-------------------------------- MODULE Gettext --------------------------------
(***************************************************************************)
(* The translation of messages: the domain and its bindings, the languages  *)
(* that are tried, the catalogs each may use, and the three caches, of      *)
(* translations, of catalogs and of converted texts.                        *)
(*                                                                         *)
(* A catalog is a directory, a name and a domain.  A text is the catalog it *)
(* comes from and the codeset it is in.  An environment is the languages of *)
(* LANGUAGE and the locale.                                                 *)
(***************************************************************************)
EXTENDS LocaleAliases, TLC

CONSTANTS
    Domains,             \* the domains a program names
    DefaultDomain,       \* "messages"
    Directories, DefaultDirname,
    Codesets,            \* the codesets a program asks for
    LocaleCharset,       \* the codeset of the locale
    CanConvert,          \* the pairs of codesets iconv knows
    CannotConvert,       \* the messages, with codesets, whose conversion fails
    Environments,
    AliasFiles,          \* the files of the path of aliases
    Layouts,             \* the catalogs that may be installed: codeset and messages of each
    Messages,
    MaxChanges,          \* bound: how often the settings of the library change
    MaxEnvironments      \* bound: how many environments there are between two changes

ASSUME GettextAssumption ==
    /\ MaxChanges \in Nat /\ MaxEnvironments \in Nat /\ DefaultDirname \in Directories
    /\ \A environment \in Environments : DOMAIN environment = {"language", "locale"}

VARIABLES
    environment,
    current,          \* _nl_current_default_domain
    bindings,         \* _nl_domain_bindings, by domain
    msg_cat_cntr,     \* _nl_msg_cat_cntr
    known,            \* the tree of known translations, by message and domain
    loaded,           \* _nl_loaded_domains, by catalog
    aliases,          \* the aliases read, and the files not read yet
    installed,
    result,           \* the last answer
    since             \* auxiliary: the environments since the counter last changed

settings == <<environment, current, bindings, msg_cat_cntr, since>>
caches == <<known, loaded, aliases>>
vars == <<settings, caches, installed, result>>

\* The names of locales that may be looked for, and the parts of each.
LocaleValues ==
    UNION {ToSet(e.language) \cup {e.locale} : e \in Environments}
    \cup {line[2] : line \in {line \in UNION {ToSet(lines) : lines \in ToSet(AliasFiles)} :
                                 Len(line) > 1}}

PartsOf == [name \in LocaleValues |-> Explode(name)]

\* The names of the catalogs for a locale, each with the names that follow it; and whether it
\* is never looked up itself.
Inheritance ==
    [locale \in LocaleValues |->
        LET parts == PartsOf[locale]
            masks == {parts.mask} \cup Below(parts.mask)
            MaskOf(name) == IF name = FileName(parts, parts.mask) THEN parts.mask
                            ELSE CHOOSE mask \in masks : FileName(parts, mask) = name
            NamesBelow(masksBelow) == [i \in 1..Len(masksBelow) |-> FileName(parts, masksBelow[i])]
        IN  [name \in {FileName(parts, mask) : mask \in masks} |->
                [unreal |-> Unreal(MaskOf(name)), names |-> NamesBelow(InOrder(Below(MaskOf(name))))]]]

NoCodeset == "NULL"
NoText == [catalog |-> <<>>, codeset |-> NoCodeset]
NoResult == [msgid |-> "none", domain |-> "none", text |-> NoText]
NoData == [loaded |-> FALSE]

Init ==
    /\ environment \in Environments /\ since = {environment}
    /\ current = DefaultDomain
    /\ bindings = <<>> /\ msg_cat_cntr = 0
    /\ known = <<>> /\ loaded = <<>>
    /\ aliases = [map |-> {}, unread |-> AliasFiles]
    /\ installed \in Layouts
    /\ result = NoResult
--------------------------------------------------------------------------------
(* The settings.                                                            *)

\* Every successful change makes the known translations old.
Flush == msg_cat_cntr' = msg_cat_cntr + 1 /\ since' = {environment}

\* textdomain, also with the domain that is current already.
TextDomain(domainname) ==
    /\ msg_cat_cntr < MaxChanges
    /\ current' = IF domainname = "" THEN DefaultDomain ELSE domainname
    /\ Flush /\ result' = NoResult
    /\ UNCHANGED <<environment, bindings, caches, installed>>

Binding(domainname) ==
    IF domainname \in DOMAIN bindings THEN bindings[domainname]
    ELSE [dirname |-> DefaultDirname, codeset |-> NoCodeset, codeset_cntr |-> 0]

\* A binding that is new or differs takes effect; then the caches are flushed.
set_binding_values(domainname, binding) ==
    IF domainname \in DOMAIN bindings /\ binding = bindings[domainname]
    THEN UNCHANGED <<bindings, msg_cat_cntr, since>>
    ELSE bindings' = (domainname :> binding) @@ bindings /\ Flush

BindTextDomain(domainname, dirname) ==
    /\ msg_cat_cntr < MaxChanges
    /\ set_binding_values(domainname, [Binding(domainname) EXCEPT !.dirname = dirname])
    /\ result' = NoResult
    /\ UNCHANGED <<environment, current, caches, installed>>

BindTextDomainCodeset(domainname, codeset) ==
    /\ msg_cat_cntr < MaxChanges
    /\ set_binding_values(domainname,
           [Binding(domainname) EXCEPT !.codeset = codeset,
                                       !.codeset_cntr = IF Binding(domainname).codeset = codeset
                                                        THEN @ ELSE @ + 1])
    /\ result' = NoResult
    /\ UNCHANGED <<environment, current, caches, installed>>

\* The program sets the locale or LANGUAGE; the library does not hear of it.
SetEnvironment(new) ==
    /\ Cardinality(since \cup {new}) <= MaxEnvironments
    /\ environment' = new /\ since' = since \cup {new} /\ result' = NoResult
    /\ UNCHANGED <<current, bindings, msg_cat_cntr, caches, installed>>
--------------------------------------------------------------------------------
(* The catalogs.  s is a record of loaded and aliases, as it goes along.    *)

\* Faulty variant of init_domain_conv: the converted texts are kept.
init_domain_conv_kept(data, binding) ==
    LET outcharset == IF binding.codeset # NoCodeset THEN binding.codeset ELSE LocaleCharset
    IN  [data EXCEPT !.codeset_cntr = binding.codeset_cntr,
                     !.conv = IF <<data.charset, outcharset>> \in CanConvert THEN outcharset
                              ELSE NoCodeset]

\* The converter for a binding, without converted texts.
init_domain_conv(data, binding) ==
    LET outcharset == IF binding.codeset # NoCodeset THEN binding.codeset ELSE LocaleCharset
    IN  [data EXCEPT !.codeset_cntr = binding.codeset_cntr,
                     !.conv = IF <<data.charset, outcharset>> \in CanConvert THEN outcharset
                              ELSE NoCodeset,
                     !.conv_tab = <<>>]

\* The catalog is read, if it is there, when it has not been tried.
load_domain(s, catalog, binding) ==
    IF s.loaded[catalog].decided THEN s
    ELSE [s EXCEPT !.loaded[catalog].decided = TRUE,
                   !.loaded[catalog].data =
                       IF catalog \notin DOMAIN installed THEN NoData
                       ELSE init_domain_conv([loaded |-> TRUE, charset |-> installed[catalog].charset,
                                              codeset_cntr |-> 0, conv |-> NoCodeset,
                                              conv_tab |-> <<>>], binding)]

HasData(s, catalog) == s.loaded[catalog].data # NoData

\* What the message is in the codeset of the converter, from the table or converted now.
converted(data, catalog, msgid) ==
    IF data.conv = NoCodeset THEN [data |-> data, codeset |-> data.charset]
    ELSE IF msgid \in DOMAIN data.conv_tab
    THEN [data |-> data, codeset |-> data.conv_tab[msgid]]
    ELSE IF <<msgid, data.conv>> \in CannotConvert
    THEN [data |-> data, codeset |-> data.charset]
    ELSE [data |-> [data EXCEPT !.conv_tab = (msgid :> data.conv) @@ @], codeset |-> data.conv]

\* _nl_find_msg.
find_msg(s, catalog, binding, msgid) ==
    LET tried == load_domain(s, catalog, binding)
        old == tried.loaded[catalog].data
        data == IF old.codeset_cntr = binding.codeset_cntr THEN old
                ELSE init_domain_conv(old, binding)
        found == converted(data, catalog, msgid)
    IN  IF ~HasData(tried, catalog) \/ msgid \notin installed[catalog].messages
        THEN [s |-> tried, text |-> NoText]
        ELSE [ s |-> [tried EXCEPT !.loaded[catalog].data = found.data],
               text |-> [catalog |-> catalog, codeset |-> found.codeset] ]

\* The first of some catalogs that has the message.
find_first(s, catalogs, binding, msgid) ==
    FoldLeft(LAMBDA done, catalog : IF done.text # NoText THEN done
                                    ELSE find_msg(done.s, catalog, binding, msgid),
             [s |-> s, text |-> NoText], catalogs)

\* The first of some catalogs that is there is loaded, and those tried before it.
RECURSIVE load_first(_, _, _)
load_first(s, catalogs, binding) ==
    IF catalogs = <<>> THEN s
    ELSE LET tried == load_domain(s, catalogs[1], binding)
         IN  IF HasData(tried, catalogs[1]) THEN tried
             ELSE load_first(tried, Tail(catalogs), binding)

\* The entries for a locale that are not there yet: one for all its parts, and one for each
\* mask below, which has the names below that as successors.
make_l10nflist(s, dirname, locale, domainname) ==
    LET InDomain(name) == <<dirname, name, domainname>>
        names == Inheritance[locale]
    IN  [s EXCEPT !.loaded =
            @ @@ [catalog \in {InDomain(name) : name \in DOMAIN names} |->
                     [ successor |-> names[catalog[2]].names,
                       decided |-> names[catalog[2]].unreal, data |-> NoData ]]]

\* A catalog and those that follow it, in the same directory and domain.
Successors(s, catalog) ==
    LET names == s.loaded[catalog].successor
    IN  <<catalog>> \o [i \in 1..Len(names) |-> <<catalog[1], names[i], catalog[3]>>]

\* The entry of a catalog, with it loaded or the first that follows it.
Entry(s, catalog, binding) ==
    [catalog |-> catalog, s |-> load_first(s, Successors(s, catalog), binding)]

NewEntry(s, dirname, locale, domainname, binding) ==
    Entry(make_l10nflist(s, dirname, locale, domainname),
          <<dirname, FileName(PartsOf[locale], PartsOf[locale].mask), domainname>>, binding)

AliasedEntry(s, alias, dirname, locale, domainname, binding) ==
    NewEntry([s EXCEPT !.aliases = [map |-> alias.map, unread |-> alias.unread]], dirname,
             IF alias.value # <<>> THEN alias.value ELSE locale, domainname, binding)

\* _nl_find_domain: the entry of a locale.  An entry of just that name is used as it is.
find_domain(s, dirname, locale, domainname, binding) ==
    IF <<dirname, locale, domainname>> \in DOMAIN s.loaded
    THEN Entry(s, <<dirname, locale, domainname>>, binding)
    ELSE AliasedEntry(s, _nl_expand_alias(s.aliases.map, s.aliases.unread, locale),
                      dirname, locale, domainname, binding)

Untranslated == {<<"C">>, <<"POSIX">>}

\* The list of languages; the C locale overrules LANGUAGE.
guess_category_value ==
    IF environment.language # <<>> /\ environment.locale # <<"C">> THEN environment.language
    ELSE <<environment.locale>>

find_in_entry(entry, binding, msgid) ==
    find_first(entry.s, Successors(entry.s, entry.catalog), binding, msgid)

\* The loop over the languages, up to one that is not translated.
search(s, languages, binding, domainname, msgid) ==
    FoldLeft(LAMBDA done, language :
                 IF done.over \/ done.text # NoText THEN done
                 ELSE IF language \in Untranslated THEN [done EXCEPT !.over = TRUE]
                 ELSE find_in_entry(find_domain(done.s, binding.dirname, language, domainname,
                                                binding), binding, msgid) @@ [over |-> FALSE],
             [s |-> s, text |-> NoText, over |-> FALSE], languages)

\* Faulty variant of IsKnown: a translation is known for ever.
IsKnownEver(msgid, domainname) == <<msgid, domainname>> \in DOMAIN known

IsKnown(msgid, domainname) ==
    /\ <<msgid, domainname>> \in DOMAIN known
    /\ known[<<msgid, domainname>>].counter = msg_cat_cntr

\* What was found is known from now on.
Answer(found, domainname, msgid) ==
    /\ loaded' = found.s.loaded /\ aliases' = found.s.aliases
    /\ known' = IF found.text = NoText THEN known
                ELSE (<<msgid, domainname>> :>
                         [counter |-> msg_cat_cntr, text |-> found.text]) @@ known
    /\ result' = [msgid |-> msgid, domain |-> domainname, text |-> found.text]

\* dcigettext, for the messages of the locale.
DCGetText(domainname, msgid) ==
    /\ IF IsKnown(msgid, domainname)
       THEN /\ result' = [msgid |-> msgid, domain |-> domainname,
                          text |-> known[<<msgid, domainname>>].text]
            /\ UNCHANGED caches
       ELSE Answer(search([loaded |-> loaded, aliases |-> aliases], guess_category_value,
                          Binding(domainname), domainname, msgid), domainname, msgid)
    /\ UNCHANGED <<settings, installed>>

\* gettext and dgettext: the null pointer instead of a domain is the current one.
GetText(msgid) == DCGetText(current, msgid)

DGetText(domainname, msgid) == DCGetText(domainname, msgid)

Next ==
    \/ \E domainname \in Domains \cup {""} : TextDomain(domainname)
    \/ \E domainname \in Domains, dirname \in Directories : BindTextDomain(domainname, dirname)
    \/ \E domainname \in Domains, codeset \in Codesets : BindTextDomainCodeset(domainname, codeset)
    \/ \E new \in Environments : SetEnvironment(new)
    \/ \E msgid \in Messages : GetText(msgid)
    \/ \E domainname \in Domains, msgid \in Messages : DGetText(domainname, msgid)

Spec == Init /\ [][Next]_vars
--------------------------------------------------------------------------------
(* Properties.                                                              *)

\* The catalogs a language may use, from its name or its aliases, and the number of the most
\* specific mask each has there.
ValuesOf(language) ==
    {language} \cup {item.value : item \in {item \in aliases.map : alias_compare(item.alias, language)}}

MasksOf(parts) == {parts.mask} \cup Below(parts.mask)

\* How specific each name of a locale is.
Specificity ==
    [locale \in LocaleValues |->
        LET parts == PartsOf[locale]
        IN  [name \in {FileName(parts, mask) : mask \in MasksOf(parts)} |->
                1 + Max({Number(mask) : mask \in {m \in MasksOf(parts) : FileName(parts, m) = name}})]]

Specific(language, name) ==
    Max({0} \cup {Specificity[value][name] :
                     value \in {v \in ValuesOf(language) : name \in DOMAIN Specificity[v]}})

HasMessage(dirname, domainname, name, msgid) ==
    /\ <<dirname, name, domainname>> \in DOMAIN installed
    /\ msgid \in installed[<<dirname, name, domainname>>].messages

\* What a language stands for: what its aliases say; it itself if it has none, or if it is also
\* a name of another locale, whose entries would be used before an alias is looked for.
Meanings(language) ==
    LET values == {item.value : item \in {item \in aliases.map : alias_compare(item.alias, language)}}
    IN  IF values = {} \/ \E other \in LocaleValues \ {language} : language \in DOMAIN Inheritance[other]
        THEN values \cup {language} ELSE values

\* The names of a locale as it is written.  The other names it has are derived, from the
\* normalized codeset or with the modifier as an audience: a lookup that makes the entries of
\* the locale tries those too, one that finds an entry of just its name does not.
LiteralNames ==
    [locale \in LocaleValues |->
        LET parts == PartsOf[locale]
        IN  {FileName(parts, mask) :
                mask \in {m \in MasksOf(parts) : {"normalized_codeset", "audience"} \cap m = {}}}]

\* The most specific catalog with the message that every meaning of a language leads to by a
\* name as it is written; 0 if there is none.
Best(dirname, domainname, language, msgid) ==
    LET meanings == Meanings(language)
        names == {name \in UNION {LiteralNames[value] : value \in meanings} :
                     /\ \A value \in meanings : name \in LiteralNames[value]
                     /\ HasMessage(dirname, domainname, name, msgid)}
    IN  Max({0} \cup {Min({Specificity[value][name] : value \in meanings}) : name \in names})

LanguagesOf(settingsThen) ==
    IF settingsThen.language # <<>> /\ settingsThen.locale # <<"C">> THEN settingsThen.language
    ELSE <<settingsThen.locale>>

\* The text is one that the i-th of some languages gives: no language before it has the
\* message, and this one has it in no more specific catalog.
ServedBy(languages, i, answer, dirname) ==
    /\ \A j \in 1..i : languages[j] \notin Untranslated
    /\ \A j \in 1..(i - 1) : Best(dirname, answer.domain, languages[j], answer.msgid) = 0
    /\ LET specific == Specific(languages[i], answer.text.catalog[2])
       IN  specific > 0 /\ specific >= Best(dirname, answer.domain, languages[i], answer.msgid)

NotServed(languages, answer, dirname) ==
    \A i \in 1..Len(languages) :
        (\A j \in 1..i : languages[j] \notin Untranslated)
            => Best(dirname, answer.domain, languages[i], answer.msgid) = 0

\* An answer is the translation, in the directory bound now, of the first language of the list
\* that has one, and the message itself only if none has one.  A language has a translation if
\* a catalog has it under a name of the locale that the language, or its alias, writes, and the
\* answer is not from a less specific catalog than the best of these; a catalog under a derived
\* name may answer and need not.  The list may be any since the caches were last flushed.
ServesSettings ==
    result # NoResult =>
        LET dirname == Binding(result.domain).dirname
        IN  \E then \in since :
                IF result.text = NoText THEN NotServed(LanguagesOf(then), result, dirname)
                ELSE /\ HasMessage(dirname, result.domain, result.text.catalog[2], result.msgid)
                     /\ result.text.catalog[1] = dirname
                     /\ \E i \in 1..Len(LanguagesOf(then)) :
                            ServedBy(LanguagesOf(then), i, result, dirname)

\* A translation is in the codeset bound now, or that of the locale, whatever was bound when
\* the catalog was loaded or the message was last asked for; it is in that of its catalog only
\* if it can not be converted.
InBoundCodeset ==
    result.text # NoText =>
        LET binding == Binding(result.domain)
            wanted == IF binding.codeset # NoCodeset THEN binding.codeset ELSE LocaleCharset
            charset == installed[result.text.catalog].charset
        IN  result.text.codeset =
                IF <<charset, wanted>> \in CanConvert /\ <<result.msgid, wanted>> \notin CannotConvert
                THEN wanted ELSE charset
================================================================================

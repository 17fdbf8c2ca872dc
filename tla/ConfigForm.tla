----------------------------- MODULE ConfigForm -----------------------------
(***************************************************************************)
(* The configuration form of the QGIS dock, the config.yaml files it reads  *)
(* and writes, and what a run makes of a file.                              *)
(*                                                                         *)
(* The form has a widget for most keys of a configuration.  Load shows the  *)
(* file of the path field and keeps its mapping in memory; Save applies the *)
(* widgets to that mapping and writes it to the path of that moment, which  *)
(* may be another one.  "New" lets the CLI write the example, then loads.   *)
(*                                                                         *)
(* Source: qgis_plugin/wintersar_qgis/dock_widget.py, pipeline/config.py.   *)
(* One key stands for each kind of widget, and for each kind of key without *)
(* one; a value is a member of a small set of texts, its spelling is left   *)
(* out.  Files hold configurations that load_config accepts.                *)
(***************************************************************************)
EXTENDS Naturals, FiniteSets

CONSTANTS
    Files,     \* paths the user works with
    MaxEdits   \* widgets changed by the user

\* Labelled keys: aoi, engine.looks, engine.esd, unwrap.tiles,
\* validate.gnss.source and .path.
Fields == {"aoi", "looks", "esd", "tiles", "source", "gpath"}

\* And the others: unwrap.save_cost_file, tiles.overlap, and the section gnss.
ConfigKeys == Fields \union {"extra", "overlap", "gnss"}

Checkboxes == {"esd"}
GnssFields == {"source", "gpath"}

Unset == "unset"
Blank == ""
Malformed == "?"

\* What a widget can be given.
Texts(f) ==
    CASE f \in Checkboxes -> {"true", "false"}
      [] f = "looks"      -> {Blank, "5,1", Malformed}
      [] f = "tiles"      -> {Blank, "auto", "2x2"}
      [] f = "source"     -> {Blank, "ngii"}
      [] OTHER            -> {Blank, "here"}

\* The values a run uses for keys that a file leaves out.
Default(k) ==
    CASE k = "esd" -> "true" [] k = "looks" -> "auto" [] k = "tiles" -> "auto"
      [] k = "overlap" -> "0.25"
      [] k = "extra" -> "false" [] k = "source" -> "csv" [] OTHER -> "none"

NoFile == [k \in ConfigKeys |-> "no file"]
Nothing == [k \in ConfigKeys |-> Unset]

\* EXAMPLE_CONFIG, which has no engine.esd.
Example == [Nothing EXCEPT !["aoi"] = "here", !["looks"] = "auto", !["tiles"] = "auto"]

\* A file somebody wrote.
HandWritten == [Example EXCEPT !["esd"] = "true", !["tiles"] = "2x2", !["overlap"] = "0.5",
                               !["extra"] = "true", !["gnss"] = "there", !["gpath"] = "here"]

VARIABLES
    configs,    \* the files
    path,    \* the path field
    data,    \* self.config_data
    form,    \* the widgets
    init,    \* "New": the file of the job that runs, and whether it was written
    synced,  \* form, memory and file agree since a "load" or a "save"; or "no"
    edits    \* widgets changed so far

formvars == <<configs, path, data, form, init, synced, edits>>

NoInit == [file |-> Blank, written |-> FALSE]

-----------------------------------------------------------------------------
\* Config.model_validate: the gnss section counts when it is there.
Effective(c) ==
    [k \in ConfigKeys \ {"gnss"} |->
        IF k \in GnssFields /\ c["gnss"] = Unset THEN "no gnss"
        ELSE IF k = "overlap" /\ c["tiles"] \in {Unset, "auto"} THEN Default(k)
        ELSE IF c[k] = Unset THEN Default(k) ELSE c[k]]

\* format_field_value: a checkbox has no third state.
Formatted(c) ==
    [f \in Fields |-> IF c[f] # Unset THEN c[f]
                      ELSE IF f \in Checkboxes THEN "false" ELSE Blank]

\* parse_field_value refuses the widget, or a blank one removes its key.
Refuses(f, raw) == raw = Malformed \/ (f = "aoi" /\ raw = Blank)

Parsed(raw) == IF raw = Blank THEN Unset ELSE raw

Filled(c) == \E f \in GnssFields : c[f] # Unset

\* FAULT: a section is left where its last key was removed.
SectionStays(c) == [c EXCEPT !["gnss"] = IF Filled(c) THEN "there" ELSE @]

\* A section comes with its first key and goes with its last.
Tidied(c) == [c EXCEPT !["gnss"] = IF Filled(c) THEN "there" ELSE Unset]

\* apply_form_values to all keys but some: the mapping of tiles is replaced.
AppliedBut(spared, c, values) ==
    Tidied([k \in ConfigKeys |-> IF k \in spared THEN c[k]
                           ELSE IF k \in Fields THEN Parsed(values[k])
                           ELSE IF k = "overlap" THEN Unset ELSE c[k]])

FormApplied(c, values) == AppliedBut({}, c, values)

Errors == {f \in Fields : Refuses(f, form[f])}

\* A refused Save worked on a shallow copy: the sections of the mapping in
\* memory have taken the widgets that parse, its top level has not.
HalfApplied(c, values) ==
    IF c = Nothing THEN c ELSE AppliedBut({"aoi"} \union Errors, c, values)

-----------------------------------------------------------------------------
\* The form and the memory take what the file says.
Shows(c) ==
    /\ data' = c
    /\ form' = Formatted(c)
    /\ synced' = "load"

TypePath(p) ==
    /\ p # path
    /\ path' = p
    /\ synced' = "no"
    /\ UNCHANGED <<configs, data, form, init, edits>>

LoadConfig ==
    /\ path # Blank
    /\ configs[path] # NoFile
    /\ Shows(configs[path])
    /\ UNCHANGED <<configs, path, init, edits>>

\* By hand, or from the map: the area of interest and the reference point.
EditField(f, raw) ==
    /\ raw # form[f] /\ edits < MaxEdits
    /\ edits' = edits + 1
    /\ form' = [form EXCEPT ![f] = raw]
    /\ synced' = "no"
    /\ UNCHANGED <<configs, path, data, init>>

SaveConfig ==
    /\ path # Blank
    /\ IF Errors = {}
       THEN /\ configs' = [configs EXCEPT ![path] = FormApplied(data, form)]
            /\ data' = FormApplied(data, form)
            /\ synced' = "save"
       ELSE /\ data' = HalfApplied(data, form)
            /\ synced' = "no"
            /\ UNCHANGED configs
    /\ UNCHANGED <<path, form, init, edits>>

\* "New" starts `wintersar init --force`; the form stays usable meanwhile.
NewConfig(p) ==
    /\ init = NoInit
    /\ init' = [file |-> p, written |-> FALSE]
    /\ UNCHANGED <<configs, path, data, form, synced, edits>>

InitWrites ==
    /\ init # NoInit /\ ~init.written
    /\ configs' = [configs EXCEPT ![init.file] = Example]
    /\ init' = [init EXCEPT !.written = TRUE]
    /\ synced' = IF init.file = path THEN "no" ELSE synced
    /\ UNCHANGED <<path, data, form, edits>>

\* Its answer selects and loads the file, whatever happened to it since.
InitDone ==
    /\ init.written
    /\ path' = init.file
    /\ init' = NoInit
    /\ Shows(configs[init.file])
    /\ UNCHANGED <<configs, edits>>

InitFails ==
    /\ init # NoInit /\ ~init.written
    /\ init' = NoInit
    /\ UNCHANGED <<configs, path, data, form, synced, edits>>

-----------------------------------------------------------------------------
FormInit ==
    /\ configs \in [Files -> {NoFile, HandWritten}]
    /\ path = Blank
    /\ data = Nothing
    /\ form = Formatted(Nothing)
    /\ init = NoInit
    /\ synced = "no"
    /\ edits = 0

FormNext ==
    \/ \E p \in Files : TypePath(p) \/ NewConfig(p)
    \/ \E f \in Fields : \E raw \in Texts(f) : EditField(f, raw)
    \/ LoadConfig \/ SaveConfig \/ InitWrites \/ InitDone \/ InitFails

FormSpec == FormInit /\ [][FormNext]_formvars

-----------------------------------------------------------------------------
\* What a run would do if the widgets were its configuration: blank is the
\* default, and gnss is used when one of its fields is filled in.
Meant(f) ==
    IF f \in GnssFields /\ \A g \in GnssFields : form[g] = Blank THEN "no gnss"
    ELSE IF form[f] = Blank THEN Default(f) ELSE form[f]

\* After a Save, a run of the file uses what the form shows, field by field,
\* and the memory is the file; after a load, the same but for checkboxes the
\* file is silent about, which show "off" and mean the default.  However
\* loads, saves, refused saves, edits, other paths and an `init` in the
\* background follow one another.
SavedIsUsed ==
    synced # "no" =>
        /\ data = configs[path]
        /\ \A f \in Fields :
             \/ Effective(configs[path])[f] = Meant(f)
             \/ synced = "load" /\ f \in Checkboxes /\ configs[path][f] = Unset
=============================================================================

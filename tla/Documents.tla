----------------------------- MODULE Documents -----------------------------
(***************************************************************************)
(* What the Studio reads and writes: the decoders of web/src/decode.ts and *)
(* runtime.ts, the answers of the host (src-tauri), and the published      *)
(* contracts (contracts/).  A decoder is a table of fields; a document is  *)
(* an assignment of one class of JSON value to each of its fields.  A      *)
(* nested document has a table of its own and is "object" in its parent:   *)
(* a decoder that refuses a part refuses the whole.  An answer is asked    *)
(* for by a command and read by the decoder the command names.             *)
(***************************************************************************)
EXTENDS RuntimeCommands, FiniteSets

VARIABLES
    command,  \* the command the document answers, or "none"
    shape,    \* the kind of the document
    written,  \* its fields, as the host or another tool wrote them
    stage,    \* "asked", "written", then "read" or "refused", then "stored"
    held      \* the fields the Studio holds, and writes when it saves

documentVars == <<command, shape, written, stage, held>>

(* ------------------------------- fields -------------------------------- *)

\* What a field may be: one type of value, possibly absent, possibly null.
Req(type) == {type}
Opt(type) == {type, "absent"}
Nullable(type) == {type, "null"}

Texts == {"string", "fieldType", "schemaType", "style", "pullState", "cache", "graphKind",
          "programKind", "sidecarKind", "packageVersion", "presetVersion"}
Json == Texts \cup {"number", "one", "boolean", "array", "strings", "bytes", "object", "null"}

\* A decoder takes the types it names, and what they include.
Includes(type) ==
    CASE type = "json" -> Json
      [] type = "string" -> Texts
      [] type = "number" -> {"number", "one"}
      [] type = "array" -> {"array", "strings", "bytes"}
      [] OTHER -> {type}

Takes(decoder, value) == \E type \in decoder : value \in Includes(type)

(* ------------------------------ decoders ------------------------------- *)

decodeCommandDocument ==
    [exit_code |-> Req("number"), result |-> Nullable("json"), stdout |-> Req("string"),
     stderr |-> Req("string")]
decodeCatalogCommand == [decodeCommandDocument EXCEPT !["result"] = Nullable("object")]
decodeProjectSummary == [path |-> Req("string"), name |-> Req("string"), modified_at |-> Req("string")]
decodeTemplateEntry ==
    [id |-> Req("string"), title |-> Req("string"), description |-> Req("string"), tags |-> Req("strings")]

\* Mutant: the reference of a remote run is left out rather than null.
decodeStudioRunLocal ==
    [id |-> Req("string"), executor |-> Req("string"), run_directory |-> Req("string"),
     state |-> Req("string"), created_at |-> Req("string"), updated_at |-> Req("string"),
     exit_code |-> Nullable("number"), result |-> Req("json"), stderr |-> Req("string"),
     remote_reference |-> Opt("string"), events |-> Opt("array"), manifest |-> Opt("json"),
     actions |-> Opt("array"), artifacts |-> Opt("array"), node_details |-> Opt("array"),
     history |-> Opt("array")]

decodeStudioRun ==
    [id |-> Req("string"), executor |-> Req("string"), run_directory |-> Req("string"),
     state |-> Req("string"), created_at |-> Req("string"), updated_at |-> Req("string"),
     exit_code |-> Nullable("number"), result |-> Req("json"), stderr |-> Req("string"),
     remote_reference |-> Nullable("string"), events |-> Opt("array"), manifest |-> Opt("json"),
     actions |-> Opt("array"), artifacts |-> Opt("array"), node_details |-> Opt("array"),
     history |-> Opt("array")]
decodeRunEvent ==
    [field \in {"type", "message", "phase", "state", "node_id"} |-> Opt("string")]
    ++ [sequence |-> Opt("number"), progress |-> {"number", "object", "null", "absent"}]
decodeRunArtifact ==
    [name |-> Req("string"), kind |-> Req("string"), path |-> Req("string"),
     content_type |-> Opt("string"), size_bytes |-> Opt("number"), sha256 |-> Opt("string")]
decodeRunNodeDetail ==
    [id |-> Req("string"), directory |-> Opt("string"), preflight |-> Opt("json"),
     stdout |-> Opt("string"), stderr |-> Opt("string")]
decodeRunHistory ==
    [created_at |-> Req("string"), kind |-> Req("string"), message |-> Req("string"),
     details |-> Opt("object")]
decodeModelPull ==
    [model |-> Req("string"), state |-> Req("pullState"), percent |-> Nullable("number"),
     received_bytes |-> Nullable("number"), total_bytes |-> Nullable("number"),
     detail |-> Nullable("string"), install_path |-> Nullable("string"), stderr |-> Req("string"),
     updated_at |-> Req("string")]
decodeDesktopCommandStatus ==
    [path |-> Nullable("string"), available |-> Req("boolean"), version |-> Nullable("string"),
     error |-> Nullable("string")]
decodeDesktopStatus ==
    [app_version |-> Req("string"), platform |-> Req("string"), architecture |-> Req("string"),
     config_path |-> Req("string"), workspace |-> Req("string"), onboarding_complete |-> Req("boolean"),
     mere_run |-> Req("object"), workflow_tools |-> Req("object")]
decodeBytes == [content |-> {"buffer", "view", "bytes"}]
decodeJsonObject == <<>>
decodeProjects == [projects |-> Req("array")]
decodeSavedProject == [status |-> Req("string"), path |-> Req("string")]
decodeComparison == [executor |-> Req("string"), document |-> Req("object")]
decodeComparisons == [comparisons |-> Req("array")]
decodeCompiledProgram == [graph |-> Req("object"), report |-> Req("json"), document |-> Req("object")]
decodeRuns == [runs |-> Req("array")]
decodeImportedAsset ==
    [name |-> Req("string"), path |-> Req("string"), content_type |-> Req("string"),
     size_bytes |-> Req("number")]
decodeImportedAssets == [assets |-> Req("array")]
decodeTemplates == [available |-> Req("boolean"), document |-> Nullable("object")]
decodeLoadedTemplate ==
    [graph |-> Req("object"), inputs |-> Req("object"), sidecar |-> Req("object"), document |-> Req("object")]
decodePublishedTemplate == [template |-> Req("object"), document |-> Req("object")]

\* The catalog of nodes, as mere.run and its plugins declare them.
decodeCatalogEntry ==
    [kind |-> Req("string"), title |-> Req("string"), description |-> Opt("string"),
     category |-> Opt("string"), provider |-> Opt("object"), inputs |-> Req("array"),
     outputs |-> Req("array"), traits |-> Opt("object"), requirements |-> Opt("object"),
     presentation |-> Opt("object")]
decodeCatalogField ==
    [name |-> Req("string"), type |-> Req("fieldType"), default |-> Opt("json"),
     description |-> Opt("string"), value_schema |-> Opt("object")]
    ++ [field \in {"required", "optional", "multiline", "secret"} |-> Opt("boolean")]
    ++ [field \in {"minimum", "maximum", "step"} |-> Opt("number")]
    ++ [field \in {"values", "content_types"} |-> Opt("strings")]
decodeCatalogValueSchema ==
    [type |-> Req("schemaType"), title |-> Opt("string"), description |-> Opt("string"),
     default |-> Opt("json"), multiline |-> Opt("boolean")]
    ++ [field \in {"values", "required"} |-> Opt("strings")]
    ++ [field \in {"properties", "items", "additional_properties"} |-> Opt("object")]
    ++ [field \in {"minimum", "maximum", "step"} |-> Opt("number")]
decodeCatalogProvider ==
    [id |-> Req("string"), version |-> Opt("string"), catalog_sha256 |-> Opt("string")]
decodeCatalogTraits ==
    [field \in {"cacheable", "deterministic", "supports_progress", "supports_previews"} |->
        Opt("boolean")]
    ++ [side_effects |-> Opt("string")]
decodeCatalogRequirements ==
    [accelerator_backends |-> Opt("strings"), model_ids |-> Opt("strings"),
     network_access |-> Opt("boolean")]
decodeCatalogPresentation == [style |-> Req("style"), primary_argument |-> Opt("string")]

decodeStudioDocument ==
    [graph |-> Req("object"), inputs |-> Req("object"), sidecar |-> Req("object"), program |-> Opt("object")]
decodeStudioProject == [path |-> Req("string")] ++ decodeStudioDocument
decodeStudioProjectPackage == [contract_version |-> Req("packageVersion")] ++ decodeStudioDocument

decodeWorkflowGraph ==
    [schema_version |-> Req("one"), kind |-> Req("graphKind"), name |-> Req("string"),
     inputs |-> Req("object"), execution |-> Opt("object"), nodes |-> Req("array"),
     outputs |-> Req("object"), metadata |-> Opt("object")]
decodeGraphInput ==
    [type |-> Req("fieldType"), required |-> Opt("boolean"), values |-> Opt("strings"),
     description |-> Opt("string"), default |-> Opt("json"), minimum |-> Opt("number"),
     maximum |-> Opt("number"), step |-> Opt("number"), multiline |-> Opt("boolean")]
decodeGraphReference == [field \in {"$ref"} |-> Req("string")]
PlanExecution == [max_parallel_nodes |-> Opt("number")]

decodeWorkflowNode ==
    [id |-> Req("string"), kind |-> Req("string"), provider |-> Opt("string"),
     arguments |-> Req("object"), depends_on |-> Opt("strings"), execution |-> Opt("object")]
NodeExecution == [cache |-> Opt("cache"), max_attempts |-> Opt("number"), timeout_seconds |-> Opt("number")]

decodeWorkflowProgram ==
    [schema_version |-> Req("one"), kind |-> Req("programKind"), name |-> Req("string"),
     inputs |-> Req("object"), variables |-> Opt("object"), imports |-> Opt("object"),
     modules |-> Req("object"), steps |-> Req("array"), outputs |-> Req("object"),
     execution |-> Opt("object"), metadata |-> Opt("object")]
\* Each of the inputs of a program is to be a definition.
ProgramInputs == [definition |-> Req("object")]
decodeWorkflowModule == [parameters |-> Req("strings"), nodes |-> Req("array"), outputs |-> Req("object")]
decodeProgramStep ==
    [id |-> Req("string"), module |-> Req("string"), arguments |-> Req("object"), when |-> Opt("json"),
     map |-> Opt("object")]
ProgramMap == [item |-> Req("string"), values |-> Req("json")]

decodeEditorSidecar ==
    [schema_version |-> Req("one"), kind |-> Req("sidecarKind"), viewport |-> Req("object"),
     nodes |-> Req("object"), inputs |-> Opt("object"), outputs |-> Opt("object"),
     groups |-> Opt("object"), notes |-> Opt("object"), selection_sets |-> Opt("object"),
     promotions |-> Opt("object"), app |-> Opt("object"), board |-> Opt("array")]
Viewport == [x |-> Req("number"), y |-> Req("number"), zoom |-> Req("number")]
decodeNodeState ==
    [x |-> Req("number"), y |-> Req("number"), collapsed |-> Opt("boolean"), color |-> Opt("string")]
Sized == [width |-> Req("number"), height |-> Req("number")]
decodeGroupState == decodeNodeState ++ Sized ++ [title |-> Req("string"), node_ids |-> Req("strings")]
decodeNoteState == decodeNodeState ++ Sized ++ [text |-> Req("string")]
decodeSelection == [node_ids |-> Req("strings")]
decodePromotion ==
    [consumer_id |-> Req("string"), argument_name |-> Req("string"), consumer_position |-> Req("object")]
decodeAppConfig == [title |-> Opt("string"), tagline |-> Opt("string"), fields |-> Opt("object")]
decodeAppField ==
    [hidden |-> Opt("boolean"), locked |-> Opt("boolean"), label |-> Opt("string"), order |-> Opt("number")]
decodeBoardItem ==
    [id |-> Req("string"), node_id |-> Req("string"), run_id |-> Req("string"), path |-> Req("string"),
     name |-> Req("string"), created_at |-> Req("string"), content_type |-> Opt("string"),
     sha256 |-> Opt("string"), model |-> Opt("string"), seed |-> Opt("string")]
decodePreset ==
    [contract_version |-> Req("presetVersion"), id |-> Req("string"), title |-> Req("string"),
     created_at |-> Req("string"), nodes |-> Req("array"), positions |-> Req("object")]
\* The position of one of its nodes.
PresetEntry == [position |-> Req("object")]
PresetPosition == [x |-> Req("number"), y |-> Req("number")]

(* ------------------- what the host and others write -------------------- *)

\* CommandResult::document and synthetic_document.
document ==
    [exit_code |-> Req("number"), result |-> Json, stdout |-> Req("string"), stderr |-> Req("string")]
\* The JSON on the output of a mere.run or workflow tools command, whatever
\* its exit code: a command that fails may answer an object of another form.
catalog_result == [nodes |-> Opt("array")]
template_result == [templates |-> Opt("array")]
catalog_document == [document EXCEPT !["result"] = Nullable("object")]
open_runtime_downloads == [opened |-> Req("boolean")]
verify_local ==
    [verified |-> Req("boolean"), message |-> Req("string"), run_id |-> Req("string"),
     run_directory |-> Req("string"), inspection |-> Req("object")]
artifact_bytes == [content |-> Req("buffer")]
import_run_artifact == [asset |-> Req("object")]
\* A line of the events of a run.
RunEvents ==
    [sequence |-> Opt("number"), type |-> Opt("string"), message |-> Opt("string"),
     phase |-> Opt("string"), state |-> Opt("string"), node_id |-> Opt("string"),
     progress |-> {"number", "object", "absent"}]
list_projects == [path |-> Req("string"), name |-> Req("string"), modified_at |-> Req("string")]
run_public ==
    [id |-> Req("string"), executor |-> Req("string"), run_directory |-> Req("string"),
     state |-> Req("string"), created_at |-> Req("string"), updated_at |-> Req("string"),
     exit_code |-> Nullable("number"), result |-> Json, stderr |-> Req("string"),
     remote_reference |-> Nullable("string"), events |-> Opt("array"),
     manifest |-> Json \cup {"absent"}, actions |-> Opt("array"), artifacts |-> Opt("array"),
     node_details |-> Opt("array"), history |-> Req("array")]
\* collect_run_artifacts forwards the artifacts of the manifest, and the
\* outputs of its nodes, which need not have a kind.
collect_run_artifacts ==
    [name |-> Req("string"), kind |-> Opt("string"), path |-> Req("string"),
     content_type |-> Opt("string"), size_bytes |-> Opt("number"), sha256 |-> Opt("string")]
collect_node_details ==
    [id |-> Req("string"), directory |-> Opt("string"), preflight |-> Json \cup {"absent"},
     stdout |-> Opt("string"), stderr |-> Opt("string")]
lifecycle_record ==
    [created_at |-> Req("string"), kind |-> Req("string"), message |-> Req("string"),
     details |-> Req("object")]
ModelPull ==
    [model |-> Req("string"), state |-> Req("pullState"), percent |-> Nullable("number"),
     received_bytes |-> Nullable("number"), total_bytes |-> Nullable("number"),
     detail |-> Nullable("string"), install_path |-> Nullable("string"), stderr |-> Req("string"),
     updated_at |-> Req("string")]
CommandStatus ==
    [path |-> Nullable("string"), available |-> Req("boolean"), version |-> Nullable("string"),
     error |-> Nullable("string")]
DesktopStatus ==
    [app_version |-> Req("string"), platform |-> Req("string"), architecture |-> Req("string"),
     config_path |-> Req("string"), workspace |-> Req("string"), onboarding_complete |-> Req("boolean"),
     mere_run |-> Req("object"), workflow_tools |-> Req("object")]
list_all == [projects |-> Req("array")]
save_project == [status |-> Req("string"), path |-> Req("string")]
compare_preflight == [comparisons |-> Req("array")]
comparison == [executor |-> Req("string"), document |-> Req("object")]
compile_program == [graph |-> Req("object"), report |-> Json, document |-> Req("object")]
list_runs == [runs |-> Req("array")]
imported_asset ==
    [name |-> Req("string"), path |-> Req("string"), content_type |-> Req("string"),
     size_bytes |-> Req("number")]
import_assets == [assets |-> Req("array")]
templates == [available |-> Req("boolean"), document |-> Req("object")]
load_template ==
    [graph |-> Req("object"), inputs |-> Req("object"), sidecar |-> Req("object"), document |-> Req("object")]
publish_template == [template |-> Req("object"), document |-> Req("object")]
export_project ==
    [contract_version |-> Req("packageVersion"), graph |-> Req("object"), inputs |-> Req("object"),
     sidecar |-> Req("object"), program |-> Opt("object")]
import_project ==
    [graph |-> Req("object"), inputs |-> Req("object"), sidecar |-> Req("object"),
     program |-> Opt("object")]
load_project ==
    [path |-> Req("string"), graph |-> Req("object"), inputs |-> Req("object"), sidecar |-> Req("object"),
     program |-> Opt("object")]
TemplatePackage ==
    [contract_version |-> Req("string"), id |-> Req("string"), title |-> Req("string"),
     description |-> Req("string"), tags |-> Req("strings"), graph |-> Req("string"),
     inputs |-> Req("string")]

\* The published contracts of what a project or a preset is made of.
GraphContract ==
    [graph |->
        [schema_version |-> Req("one"), kind |-> Req("graphKind"), name |-> Req("string"),
         inputs |-> Req("object"), nodes |-> Req("array"), outputs |-> Req("object"),
         execution |-> Opt("object"), metadata |-> Opt("object")],
     input |->
        [type |-> Req("fieldType"), required |-> Opt("boolean"), default |-> Json \cup {"absent"},
         values |-> Opt("strings"), content_types |-> Opt("strings")],
     reference |-> [field \in {"$ref"} |-> Req("string")],
     node |->
        [id |-> Req("string"), kind |-> Req("string"), provider |-> Opt("string"),
         arguments |-> Req("object"), depends_on |-> Opt("strings"), execution |-> Opt("object")],
     execution |->
        [max_attempts |-> Opt("number"), timeout_seconds |-> Opt("number"), cache |-> Opt("cache")],
     graphExecution |-> [max_parallel_nodes |-> Opt("number")]]
\* A program may have any value for an input, and its nodes any execution:
\* fields that a decoder reads, and "other" for one that none does.
ProgramContract ==
    [program |->
        [schema_version |-> Req("one"), kind |-> Req("programKind"), name |-> Req("string"),
         inputs |-> Req("object"), variables |-> Opt("object"), imports |-> Opt("object"),
         modules |-> Opt("object"), steps |-> Req("array"), outputs |-> Req("object"),
         execution |-> Opt("object"), metadata |-> Opt("object")],
     programInputs |-> [definition |-> Json],
     programInput |->
        [field \in {"type", "required", "values", "description", "default", "minimum", "maximum", "step",
                    "multiline", "other"} |-> Json \cup {"absent"}],
     programReference |-> [field \in {"$ref"} |-> Req("string")],
     programExecution |-> [max_parallel_nodes |-> Opt("number")],
     module |-> [parameters |-> Req("strings"), nodes |-> Req("array"), outputs |-> Req("object")],
     moduleNode |->
        [id |-> Req("string"), kind |-> Req("string"), provider |-> Opt("string"),
         arguments |-> Req("object"), depends_on |-> Opt("strings"), execution |-> Opt("object")],
     moduleExecution |->
        [field \in {"cache", "max_attempts", "timeout_seconds", "other"} |-> Json \cup {"absent"}],
     step |->
        [id |-> Req("string"), module |-> Req("string"), arguments |-> Req("object"),
         when |-> Json \cup {"absent"}, map |-> Opt("object")],
     map |-> [item |-> Req("string"), values |-> Json]]
SidecarContract ==
    LET Placed == [x |-> Req("number"), y |-> Req("number"), collapsed |-> Opt("boolean"),
                   color |-> Opt("string")]
        Boxed == Placed ++ [width |-> Req("number"), height |-> Req("number")]
    IN [sidecar |->
            [schema_version |-> Req("one"), kind |-> Req("sidecarKind"), viewport |-> Req("object"),
             nodes |-> Req("object")]
            ++ [part \in {"inputs", "outputs", "groups", "notes", "selection_sets", "promotions", "app"}
                    |-> Opt("object")]
            ++ [board |-> Opt("array")],
        viewport |-> [x |-> Req("number"), y |-> Req("number"), zoom |-> Req("number")],
        position |-> Placed,
        group |-> Boxed ++ [title |-> Req("string"), node_ids |-> Req("strings")],
        note |-> Boxed ++ [text |-> Req("string")],
        selection |-> [node_ids |-> Req("strings")],
        promotion |-> [consumer_id |-> Req("string"), argument_name |-> Req("string"),
                       consumer_position |-> Req("object")],
        consumerPosition |-> [x |-> Req("number"), y |-> Req("number")],
        app |-> [title |-> Opt("string"), tagline |-> Opt("string"), fields |-> Opt("object")],
        appField |-> [hidden |-> Opt("boolean"), locked |-> Opt("boolean"), label |-> Opt("string"),
                      order |-> Opt("number")],
        board |-> [field \in {"id", "node_id", "run_id", "path", "name", "created_at"} |-> Req("string")]
                  ++ [field \in {"content_type", "sha256", "model", "seed"} |-> Opt("string")]]
PresetContract ==
    [preset |-> [contract_version |-> Req("presetVersion"), id |-> Req("string"), title |-> Req("string"),
                 created_at |-> Req("string"), nodes |-> Req("array"), positions |-> Req("object")],
     presetEntry |-> [position |-> Opt("object")],
     presetPosition |-> SidecarContract.position]

\* The nodes that mere.run and its plugins declare (catalog version 1).
CatalogContract ==
    [entry |->
        [kind |-> Req("string"), title |-> Req("string"), inputs |-> Req("array"),
         outputs |-> Req("array")]
        ++ [part \in {"description", "category"} |-> Opt("string")]
        ++ [part \in {"provider", "traits", "requirements", "presentation"} |-> Opt("object")],
     field |->
        [name |-> Req("string"), type |-> Req("fieldType"), required |-> Opt("boolean"),
         default |-> Json \cup {"absent"}, values |-> Opt("strings"), minimum |-> Opt("number"),
         value_schema |-> Opt("object"), content_types |-> Opt("strings")],
     schema |->
        [type |-> Req("schemaType"), properties |-> Opt("object"), items |-> Opt("object"),
         required |-> Opt("strings"), default |-> Json \cup {"absent"}],
     provider |-> [id |-> Req("string"), version |-> Opt("string"), catalog_sha256 |-> Opt("string")],
     traits |-> [cacheable |-> Opt("boolean"), side_effects |-> Opt("string")],
     requirements |->
        [accelerator_backends |-> Opt("strings"), network_access |-> Opt("boolean"),
         model_ids |-> Opt("strings")],
     presentation |-> [style |-> Req("style"), primary_argument |-> Opt("string")]]

(* ------------------------- writer and decoder -------------------------- *)

\* The documents the Studio saves again, and the ones it only reads.
Kept ==
    [graph |-> decodeWorkflowGraph, input |-> decodeGraphInput, reference |-> decodeGraphReference,
     node |-> decodeWorkflowNode, execution |-> NodeExecution, graphExecution |-> PlanExecution,
     program |-> decodeWorkflowProgram, programInputs |-> ProgramInputs, programInput |-> decodeGraphInput,
     programReference |-> decodeGraphReference, programExecution |-> PlanExecution,
     module |-> decodeWorkflowModule, moduleNode |-> decodeWorkflowNode, moduleExecution |-> NodeExecution,
     step |-> decodeProgramStep, map |-> ProgramMap,
     sidecar |-> decodeEditorSidecar, viewport |-> Viewport, position |-> decodeNodeState,
     group |-> decodeGroupState, note |-> decodeNoteState, selection |-> decodeSelection,
     promotion |-> decodePromotion, consumerPosition |-> PresetPosition,
     app |-> decodeAppConfig, appField |-> decodeAppField, board |-> decodeBoardItem,
     preset |-> decodePreset, presetEntry |-> PresetEntry, presetPosition |-> PresetPosition,
     project |-> decodeStudioProject]
Answers ==
    [package |-> decodeStudioProjectPackage, command |-> decodeCommandDocument,
     summary |-> decodeProjectSummary, run |-> decodeStudioRun, artifact |-> decodeRunArtifact,
     detail |-> decodeRunNodeDetail, history |-> decodeRunHistory, pull |-> decodeModelPull,
     commandStatus |-> decodeDesktopCommandStatus, status |-> decodeDesktopStatus,
     catalog |-> decodeCatalogCommand, catalogResult |-> [nodes |-> Req("array")],
     templateResult |-> [templates |-> Req("array")], event |-> decodeRunEvent,
     opened |-> decodeJsonObject, verified |-> decodeJsonObject, bytes |-> decodeBytes,
     copied |-> [asset |-> Req("object")], imported |-> decodeStudioDocument,
     projects |-> decodeProjects, saved |-> decodeSavedProject, comparison |-> decodeComparison,
     comparisons |-> decodeComparisons, compiled |-> decodeCompiledProgram, runs |-> decodeRuns, asset |-> decodeImportedAsset,
     assets |-> decodeImportedAssets, templates |-> decodeTemplates, loaded |-> decodeLoadedTemplate,
     published |-> decodePublishedTemplate, template |-> decodeTemplateEntry]
Catalog ==
    [entry |-> decodeCatalogEntry, field |-> decodeCatalogField, schema |-> decodeCatalogValueSchema,
     provider |-> decodeCatalogProvider, traits |-> decodeCatalogTraits,
     requirements |-> decodeCatalogRequirements, presentation |-> decodeCatalogPresentation]
Decoder == Kept ++ Answers ++ Catalog

HostDocuments ==
    [project |-> load_project, package |-> export_project, command |-> document,
     summary |-> list_projects, run |-> run_public, artifact |-> collect_run_artifacts,
     detail |-> collect_node_details, history |-> lifecycle_record, pull |-> ModelPull,
     commandStatus |-> CommandStatus, status |-> DesktopStatus, projects |-> list_all,
     catalog |-> catalog_document, catalogResult |-> catalog_result,
     templateResult |-> template_result, event |-> RunEvents, opened |-> open_runtime_downloads,
     verified |-> verify_local, bytes |-> artifact_bytes, copied |-> import_run_artifact,
     imported |-> import_project, saved |-> save_project, comparison |-> comparison,
     comparisons |-> compare_preflight, compiled |-> compile_program,
     runs |-> list_runs, asset |-> imported_asset, assets |-> import_assets,
     templates |-> templates, loaded |-> load_template, published |-> publish_template,
     template |-> TemplatePackage]
Writer == GraphContract ++ ProgramContract ++ SidecarContract ++ PresetContract ++ HostDocuments ++ CatalogContract

\* One of the types of a field: a value, one that its reader takes if there is.
Value(types, reader) ==
    LET values == types \ {"absent", "null"}
    IN IF \E type \in values : Takes(reader, type) THEN CHOOSE type \in values : Takes(reader, type)
       ELSE CHOOSE type \in types : values # {} => type \in values

\* A document has a value in every field and differs from that in one, or has
\* no more than it must.
Complete(kind) ==
    [field \in DOMAIN Writer[kind] |->
        Value(Writer[kind][field], IF field \in DOMAIN Decoder[kind] THEN Decoder[kind][field] ELSE {})]
Least(kind) ==
    [field \in DOMAIN Writer[kind] |->
        IF "absent" \in Writer[kind][field] THEN "absent"
        ELSE IF "null" \in Writer[kind][field] THEN "null" ELSE Complete(kind)[field]]
DocumentsOf(kind) ==
    {Least(kind)}
    \cup UNION {{[Complete(kind) EXCEPT ![field] = type] : type \in Writer[kind][field]} :
                    field \in DOMAIN Writer[kind]}

(* ------------------------------- actions ------------------------------- *)

\* The commands that answer with a document of this kind.
Askers(kind) ==
    LET asking == {c \in DOMAIN value_command : value_command[c].answers = kind}
    IN IF asking = {} THEN {"none"} ELSE asking

DocumentsInit ==
    /\ shape \in DOMAIN Writer
    /\ command \in Askers(shape)
    /\ written \in DocumentsOf(shape)
    /\ stage = IF command = "none" THEN "written" ELSE "asked"
    /\ held = <<>>

\* Invoke the command; the host refuses arguments it does not know.
Invoke ==
    /\ stage = "asked"
    /\ stage' = IF Accepted(command) THEN "written" ELSE "refused"
    /\ UNCHANGED <<command, shape, written, held>>

\* What the decoder finds in its own fields; it does not look at others.
Found(fields, source) ==
    [field \in fields |-> IF field \in DOMAIN source THEN source[field] ELSE "absent"]

\* Decode the answer or the file; one field that is not taken refuses it all.
Read ==
    LET decoder == Decoder[IF command = "none" THEN shape ELSE NativeRuntime[command].reads]
        found == Found(DOMAIN decoder, written)
        taken == \A field \in DOMAIN decoder : Takes(decoder[field], found[field])
    IN /\ stage = "written"
       /\ stage' = IF taken THEN "read" ELSE "refused"
       /\ held' = IF taken THEN found ELSE <<>>
       /\ UNCHANGED <<command, shape, written>>

\* JSON.stringify leaves out what is undefined.
Store ==
    /\ stage = "read"
    /\ shape \in DOMAIN Kept
    /\ stage' = "stored"
    /\ held' = [field \in {field \in DOMAIN held : held[field] /= "absent"} |-> held[field]]
    /\ UNCHANGED <<command, shape, written>>

DocumentsNext == Invoke \/ Read \/ Store

DocumentsSpec == DocumentsInit /\ [][DocumentsNext]_documentVars

(* ----------------------------- properties ------------------------------ *)

\* A program may leave its modules out, a preset the position of a node and an
\* output of a node its kind, and a command that fails leaves out its nodes or
\* templates: the decoders refuse them.
Refusals == {<<"program", "modules">>, <<"presetEntry", "position">>, <<"artifact", "kind">>,
             <<"catalogResult", "nodes">>, <<"templateResult", "templates">>}

\* What the contract of a program leaves open, the Studio has types for.
GraphInputDefinition ==
    [type |-> Req("fieldType"), required |-> Opt("boolean"), values |-> Opt("strings"),
     description |-> Opt("string"), default |-> Opt("json"), minimum |-> Opt("number"),
     maximum |-> Opt("number"), step |-> Opt("number"), multiline |-> Opt("boolean")]
Declared ==
    [programInputs |-> [definition |-> Req("object")], programInput |-> GraphInputDefinition,
     moduleExecution |->
        [cache |-> Opt("cache"), max_attempts |-> Opt("number"), timeout_seconds |-> Opt("number")]]

\* The window names the argument of the probe "text", the host "value".
Misnamed == {"studio_executor_probe"}

\* The content types of an input, what a program has beside the fields that the
\* Studio has types for, and what the position of a preset adds to its
\* coordinates, are not read and so not written again.
Losses == {<<"input", "content_types">>, <<"programInput", "other">>, <<"moduleExecution", "other">>,
           <<"presetPosition", "collapsed">>, <<"presetPosition", "color">>}

Has(field) == IF field \in DOMAIN written THEN written[field] ELSE "absent"
LeftOut == {field \in DOMAIN Writer[shape] : Has(field) = "absent"}

\* The document is not one the Studio reads, for what it has in this field.
Foreign(field) ==
    \/ <<shape, field>> \in Refusals /\ field \in LeftOut
    \/ /\ shape \in DOMAIN Declared /\ field \in DOMAIN Declared[shape]
       /\ ~Takes(Declared[shape][field], Has(field))

\* The host takes every command the window sends; what it answers, and what
\* the contracts allow in a project, the decoders of the Studio take, but for
\* the refusals above and for programs whose inputs, or the execution of whose
\* nodes, are not of the Studio's types; and a project that is opened and saved
\* has every field it had, but for the losses above (decode.ts, runtime.ts:328).
DocumentsSurvive ==
    /\ stage = "refused" => command \in Misnamed \/ \E field \in DOMAIN Writer[shape] : Foreign(field)
    /\ stage = "stored" =>
         \A field \in DOMAIN written \ LeftOut :
            \/ <<shape, field>> \in Losses
            \/ field \in DOMAIN held /\ held[field] = written[field]

=============================================================================

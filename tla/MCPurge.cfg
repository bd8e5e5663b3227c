SPECIFICATION Spec
CONSTANTS
    map = map
    manifest = manifest
    backup = backup
    snapshot = snapshot
    post = post
    link = link
    grade = grade
    lecture = lecture
    file = file
    stub = stub
    grades = grades
    markdown = markdown
    key = key
    oldkey = oldkey
    log = log
    revision = revision
    Folder = Folder
    Note = Note
    Docs = {map, manifest, backup, snapshot}
    Maps = {map}
    Records = {post, link, grade, lecture}
    Holds <- MCHolds
    Names <- MCNames
    Files = {file, stub}
    CourseFiles = {grades, markdown}
    StateFiles = {key, oldkey}
    Logs = {log}
    Revisions = {revision}
    BackupOf <- MCBackupOf
    Inside = {markdown, Note}
    KindOf <- MCKindOf
    MaxWrites = 2
    MaxFaults = 1
INVARIANTS
    CompleteIsGone
PROPERTIES
    OnlyPreviewed

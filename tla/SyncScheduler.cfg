SPECIFICATION Spec
CONSTANTS
    Sources = {"gmail", "icloud_mail"}
    NoTimeout = {"icloud_mail"}
    MaxManual = 1
    MaxRestarts = 1
PROPERTIES EnabledSourcesRun DueBackupsRun
